---- MODULE Spec2Model ----
(***************************************************************************)
(* Bubble shooter (src/src/main.js, class GameScene): the settled grid,    *)
(* the shot in flight, the falling bubbles, the Phaser timer queue and the *)
(* session flags.  Lengths are in 1/100 pixel, times in milliseconds.      *)
(***************************************************************************)
EXTENDS Integers, Sequences, FiniteSets, TLC

\* JavaScript's null: for an object field, for a colour, for a timer's holder.
NULL == [null |-> TRUE]
NoColor == -1
NoRef == "none"
\* A field that holds a Phaser TimerEvent.
EVENT == [null |-> FALSE]

\* ------------------------------------------------------------ constants
BUBBLE_SPEED == 80000
BUBBLE_RADIUS == 2000
FALL_GRAVITY == 80000
POINTS_PER_POP == 10
POINTS_PER_FALL == 20
MAX_LEADERBOARD_ENTRIES == 10
GRID_ROWS == 5
BUBBLE_DIAMETER == BUBBLE_RADIUS * 2
ROW_HEIGHT == 3464
INITIAL_DESCENT_INTERVAL == 20000
MIN_DESCENT_INTERVAL == 6000
DESCENT_WARNING_TIME == 2000

\* 0xff3333, 0x33cc33, 0xffff00, 0x3366ff, 0xff00ff, 0xff9900, 0x00ffff, 0xcc66ff
ALL_BUBBLE_COLORS ==
  << 16724787, 3394611, 16776960, 3368703, 16711935, 16750848, 65535, 13395711 >>

COLOR_THRESHOLDS ==
  << [colors |-> 4, score |-> 0], [colors |-> 5, score |-> 500],
     [colors |-> 6, score |-> 1500], [colors |-> 7, score |-> 3000],
     [colors |-> 8, score |-> 5000] >>

DESCENT_SPEED_THRESHOLDS ==
  << [score |-> 0, interval |-> 20000], [score |-> 500, interval |-> 15000],
     [score |-> 1000, interval |-> 10000], [score |-> 2000, interval |-> 8000],
     [score |-> 3500, interval |-> 7000], [score |-> 5000, interval |-> 6000] >>

\* The canvas (window.innerWidth x window.innerHeight) and the frame time.
CanvasWidth == 17000
CanvasHeight == 37000
FrameMs == 50

\* ------------------------------------------------------------ bounds
\* A session explores at most MaxInputs controller messages that change the
\* scene (shoot, aim, connection) and at most MaxDescents descents.
MaxInputs == 2
MaxDescents == 1
\* The same bound for the sessions that start under way (SpecMidSession).
MaxMidDescents == 2
MaxMidInputs == 1
\* The bounds of the sessions in which the game loop keeps running (SpecFlight).
MaxFlightDescents == 1
MaxFlightInputs == 2
\* The sockets that connect to the relay server and the rooms it creates (SpecRelay).
MaxSockets == 2
MaxRooms == 2
\* The timestamps of the leaderboard entries (SpecLeaderboard).
MaxSaves == 11

\* The indices that Phaser.Utils.Array.GetRandom draws in the model.
DrawColors == {0, 1}
\* Launch angles (degrees) the controller sends.
Angles == {60, 90}
AimAngles == {90}
\* Initials a controller submits ("" when it sends none).
Initials == {"", "AAA"}

\* ------------------------------------------------------------ play field
gameArea ==
  [left |-> 2000 + 500, right |-> (CanvasWidth - 2000) - 500,
   top |-> 6000 + 500, bottom |-> CanvasHeight - 10000]

bubblesPerRow == (gameArea.right - gameArea.left) \div BUBBLE_DIAMETER

gridStartX ==
  gameArea.left
  + ((gameArea.right - gameArea.left) - bubblesPerRow * BUBBLE_DIAMETER) \div 2
  + BUBBLE_RADIUS

gridStartY == gameArea.top + BUBBLE_RADIUS

shooterX == CanvasWidth \div 2
shooterY == CanvasHeight - 5000 - 3500

\* ------------------------------------------------------------ arithmetic
\* JavaScript's row % 2 === 1 (false for every negative row).
IsOddRow(row) == row > 0 /\ row % 2 = 1

\* Math.round(n / d) for d > 0: halves round towards +infinity.
RoundDiv(n, d) == (2 * n + d) \div (2 * d)

\* The square of Phaser.Math.Distance.Between.
Dist2(x1, y1, x2, y2) == (x1 - x2) * (x1 - x2) + (y1 - y2) * (y1 - y2)

Abs(n) == IF n < 0 THEN -n ELSE n

\* ------------------------------------------------------------ geometry
getGridPosition(row, col) ==
  [x |-> gridStartX + col * BUBBLE_DIAMETER
         + (IF IsOddRow(row) THEN BUBBLE_RADIUS ELSE 0),
   y |-> gridStartY + row * ROW_HEIGHT]

getGridCell(worldX, worldY) ==
  LET row == RoundDiv(worldY - gridStartY, ROW_HEIGHT)
      xOffset == IF IsOddRow(row) THEN BUBBLE_RADIUS ELSE 0
  IN [row |-> row, col |-> RoundDiv(worldX - gridStartX - xOffset, BUBBLE_DIAMETER)]

isValidGridCell(row, col) ==
  IF row < 0 THEN FALSE
  ELSE LET maxCols == IF IsOddRow(row) THEN bubblesPerRow - 1 ELSE bubblesPerRow
       IN col >= 0 /\ col < maxCols

\* gridBubbles is a set of bubble objects [id, row, col, color]; the id is
\* the object's identity.  A lookup by cell takes the matching object.
CellOccupied(grid, row, col) == \E b \in grid : b.row = row /\ b.col = col

getBubbleAtCell(grid, row, col) ==
  IF CellOccupied(grid, row, col)
  THEN CHOOSE b \in grid : b.row = row /\ b.col = col
  ELSE NULL

EvenOffsets == << <<-1, -1>>, <<-1, 0>>, <<0, -1>>, <<0, 1>>, <<1, -1>>, <<1, 0>> >>
OddOffsets == << <<-1, 0>>, <<-1, 1>>, <<0, -1>>, <<0, 1>>, <<1, 0>>, <<1, 1>> >>

\* The valid neighbouring cells, in the order of the offset table.
getNeighbors(row, col) ==
  LET offsets == IF IsOddRow(row) THEN OddOffsets ELSE EvenOffsets
      cells == [i \in 1..6 |-> [row |-> row + offsets[i][1], col |-> col + offsets[i][2]]]
  IN SelectSeq(cells, LAMBDA c : isValidGridCell(c.row, c.col))

hasAdjacentBubble(grid, row, col) ==
  IF row = 0 THEN TRUE
  ELSE LET n == getNeighbors(row, col)
       IN \E i \in 1..Len(n) : CellOccupied(grid, n[i].row, n[i].col)

\* ------------------------------------------------------------ searches
\* findNearestEmptyCell: the valid empty cells of the 3x3 block around the
\* nearest cell, in loop order (dr outer, dc inner); the stable sort by
\* distance returns the first one of least distance.
findNearestEmptyCell(grid, worldX, worldY) ==
  LET cell == getGridCell(worldX, worldY)
      D == <<-1, 0, 1>>
      cand(k) == [row |-> cell.row + D[((k - 1) \div 3) + 1],
                  col |-> cell.col + D[((k - 1) % 3) + 1]]
      ok(k) == /\ isValidGridCell(cand(k).row, cand(k).col)
               /\ ~CellOccupied(grid, cand(k).row, cand(k).col)
      dist(k) == LET pos == getGridPosition(cand(k).row, cand(k).col)
                 IN Dist2(worldX, worldY, pos.x, pos.y)
      candidates == {k \in 1..9 : ok(k)}
  IN IF candidates = {} THEN NULL
     ELSE cand(CHOOSE k \in candidates :
                 \A j \in candidates : dist(k) < dist(j) \/ (dist(k) = dist(j) /\ k <= j))

RECURSIVE ConnectedScan(_, _, _, _, _, _, _)
\* The inner loop of findConnectedBubbles over the neighbours n[i..] of the
\* bubble taken from the queue.
ConnectedScan(grid, color, n, i, queue, connected, visited) ==
  IF i > Len(n) THEN [queue |-> queue, connected |-> connected, visited |-> visited]
  ELSE LET key == <<n[i].row, n[i].col>>
           bubble == getBubbleAtCell(grid, n[i].row, n[i].col)
       IN IF key \in visited
          THEN ConnectedScan(grid, color, n, i + 1, queue, connected, visited)
          ELSE IF bubble # NULL /\ bubble.color = color
          THEN ConnectedScan(grid, color, n, i + 1, Append(queue, bubble),
                             Append(connected, bubble), visited \cup {key})
          ELSE ConnectedScan(grid, color, n, i + 1, queue, connected, visited)

RECURSIVE ConnectedLoop(_, _, _, _, _)
ConnectedLoop(grid, color, queue, connected, visited) ==
  IF queue = << >> THEN connected
  ELSE LET current == Head(queue)
           r == ConnectedScan(grid, color, getNeighbors(current.row, current.col), 1,
                              Tail(queue), connected, visited)
       IN ConnectedLoop(grid, color, r.queue, r.connected, r.visited)

\* findConnectedBubbles that looks at the neighbours of startBubble only.
findConnectedBubblesOneStep(grid, startBubble) ==
  ConnectedScan(grid, startBubble.color, getNeighbors(startBubble.row, startBubble.col), 1,
                << >>, <<startBubble>>, {<<startBubble.row, startBubble.col>>}).connected

\* The flood fill from startBubble, as the sequence `connected`.
findConnectedBubbles(grid, startBubble) ==
  ConnectedLoop(grid, startBubble.color, <<startBubble>>, <<startBubble>>,
                {<<startBubble.row, startBubble.col>>})

RECURSIVE FloatingScan(_, _, _, _, _)
FloatingScan(grid, n, i, queue, connected) ==
  IF i > Len(n) THEN [queue |-> queue, connected |-> connected]
  ELSE LET key == <<n[i].row, n[i].col>>
       IN IF key \in connected
          THEN FloatingScan(grid, n, i + 1, queue, connected)
          ELSE IF CellOccupied(grid, n[i].row, n[i].col)
          THEN FloatingScan(grid, n, i + 1, Append(queue, n[i]), connected \cup {key})
          ELSE FloatingScan(grid, n, i + 1, queue, connected)

RECURSIVE FloatingLoop(_, _, _)
FloatingLoop(grid, queue, connected) ==
  IF queue = << >> THEN connected
  ELSE LET current == Head(queue)
           r == FloatingScan(grid, getNeighbors(current.row, current.col), 1,
                             Tail(queue), connected)
       IN FloatingLoop(grid, r.queue, r.connected)

RECURSIVE SeqOfSet(_)
SeqOfSet(S) ==
  IF S = {} THEN << >>
  ELSE LET x == CHOOSE y \in S : TRUE IN <<x>> \o SeqOfSet(S \ {x})

\* The bubbles of the grid that the search from the row-0 bubbles misses.
findFloatingBubbles(grid) ==
  LET top == {[row |-> b.row, col |-> b.col] : b \in {t \in grid : t.row = 0}}
      connected == FloatingLoop(grid, SeqOfSet(top), {<<c.row, c.col>> : c \in top})
  IN {b \in grid : <<b.row, b.col>> \notin connected}

checkGridCollision(grid, x, y) ==
  \E b \in grid :
    LET pos == getGridPosition(b.row, b.col)
    IN Dist2(x, y, pos.x, pos.y) < ((BUBBLE_DIAMETER * 9) \div 10) * ((BUBBLE_DIAMETER * 9) \div 10)

checkGameOver(grid) ==
  \E b \in grid : getGridPosition(b.row, b.col).y + BUBBLE_RADIUS >= gameArea.bottom

\* ------------------------------------------------------------ state
VARIABLES
  scene,                \* "waiting" | "game" | "stopping" (scene.start queued)
  ws,                   \* "open" | "closed": the desktop's socket
  phase,                \* "events" (between frames) | "frame" (inside a step)
  gridBubbles, fallingBubbles, shootingBubble, timers,
  score, availableColorCount, descentInterval,
  descentTimer, warningTimer, warningCountdown, gameOverTimeout,
  isGameOver, isPaused, initialsReceived,
  currentBubbleColor, nextBubbleColor, aimAngle, isAiming, trajectoryGraphics,
  nextId,               \* identity of the next bubble object
  inputs, descents,     \* per-session counts that bound the exploration
  rooms, roomObjs,      \* relay server: the rooms map and the room objects
  sockets,              \* relay server: one connection closure per socket
  isHighScore,          \* the scene's flag of the running game over
  storage,              \* TRUE when localStorage can be read and written
  sent, incoming,       \* relay server: the last message in and what it sent
  leaderboard           \* localStorage: the stored leaderboard

vars ==
  << scene, ws, phase, gridBubbles, fallingBubbles, shootingBubble, timers,
     score, availableColorCount, descentInterval, descentTimer, warningTimer,
     warningCountdown, gameOverTimeout, isGameOver, isPaused, initialsReceived,
     currentBubbleColor, nextBubbleColor, aimAngle, isAiming, trajectoryGraphics,
     nextId, inputs, descents, rooms, roomObjs, sockets, sent, incoming, leaderboard,
     isHighScore, storage >>

\* What lies outside the game scene: the relay server and the browser's storage.
relayVars == << rooms, roomObjs, sockets, sent, incoming >>

\* The scene object as one record, so that a handler is a function of it.
St ==
  [scene |-> scene, ws |-> ws, gridBubbles |-> gridBubbles,
   fallingBubbles |-> fallingBubbles, shootingBubble |-> shootingBubble,
   timers |-> timers, score |-> score, availableColorCount |-> availableColorCount,
   descentInterval |-> descentInterval, descentTimer |-> descentTimer,
   warningTimer |-> warningTimer, warningCountdown |-> warningCountdown,
   gameOverTimeout |-> gameOverTimeout, isGameOver |-> isGameOver,
   isPaused |-> isPaused, initialsReceived |-> initialsReceived,
   currentBubbleColor |-> currentBubbleColor, nextBubbleColor |-> nextBubbleColor,
   aimAngle |-> aimAngle, isAiming |-> isAiming,
   trajectoryGraphics |-> trajectoryGraphics, nextId |-> nextId,
   inputs |-> inputs, descents |-> descents,
   isHighScore |-> isHighScore, leaderboard |-> leaderboard, storage |-> storage]

\* ------------------------------------------------------------ timer queue
\* One entry per pending Phaser TimerEvent or completion tween, in the order
\* of scene.time's active list.  rem is the time left; due marks the entries
\* that the running frame dispatches.  ref names the field of the scene that
\* holds the event.  The events of a second and more ("long": the idle delay
\* and the warning ticks of the descent, the two game-over delays) are not
\* counted down: they come due in some later frame.  Each carries an id, and
\* every shorter entry that was pending when such an event was armed (or
\* started a new period) lists that id in blk: it is dispatched no later than
\* the event.  So is every entry that the callback of such an entry arms:
\* a new entry carries the mark Fresh until the step that armed it ends, and
\* then takes over the blk of the dispatched entry (the chains of short
\* delays, 50 + 180 ms and 250 ms, are shorter than any long delay).
Fresh == 0
LongKinds == {"idle", "warn", "gameOverTimeout", "toWaiting"}
IsLong(t) == t.kind \in LongKinds

NewTimer(kind, delay) ==
  [kind |-> kind, rem |-> delay, due |-> FALSE, bid |-> 0, row |-> 0, col |-> 0,
   color |-> 0, left |-> 0, ref |-> NoRef, lid |-> 0, blk |-> {Fresh}]

LiveLids(q) == {q[i].lid : i \in {j \in DOMAIN q : IsLong(q[j])}}

FreeLid(q) == CHOOSE n \in 1..(Len(q) + 1) :
                /\ n \notin LiveLids(q)
                /\ \A m \in 1..(n - 1) : m \in LiveLids(q)

Block(q, l) == [i \in DOMAIN q |-> IF IsLong(q[i]) THEN q[i]
                                   ELSE [q[i] EXCEPT !.blk = @ \cup {l}]]

\* scene.time.delayedCall / addEvent / tweens.add
Arm(q, t) ==
  IF IsLong(t)
  THEN LET l == FreeLid(q) IN Append(Block(q, l), [t EXCEPT !.lid = l])
  ELSE Append(q, t)

Unblock(q) == [i \in DOMAIN q |-> [q[i] EXCEPT !.blk = @ \cap (LiveLids(q) \cup {Fresh})]]

\* The step that armed the fresh entries ends; B is the blk they take over.
\* A short entry is also dispatched before the long events of its own step.
Adopt(q, B) ==
  LET freshLids == {q[i].lid : i \in {j \in DOMAIN q : IsLong(q[j]) /\ Fresh \in q[j].blk}}
  IN [i \in DOMAIN q |->
        IF Fresh \in q[i].blk
        THEN [q[i] EXCEPT !.blk = IF IsLong(q[i]) THEN {}
                                   ELSE (@ \ {Fresh}) \cup (B \cap LiveLids(q)) \cup freshLids]
        ELSE q[i]]

\* TimerEvent.remove() of the event that the field `ref` holds.
RemoveRef(q, ref) == Unblock(SelectSeq(q, LAMBDA t : t.ref # ref))

\* Assigning a new event to the field: the old event keeps running unheld.
Unref(q, ref) == [i \in DOMAIN q |-> IF q[i].ref = ref THEN [q[i] EXCEPT !.ref = NoRef] ELSE q[i]]

RemoveAt(q, i) == Unblock([j \in 1..(Len(q) - 1) |-> IF j < i THEN q[j] ELSE q[j + 1]])

\* The scene takes the state s at the end of a step.
Commit(s) ==
  /\ scene' = s.scene
  /\ ws' = s.ws
  /\ gridBubbles' = s.gridBubbles
  /\ fallingBubbles' = s.fallingBubbles
  /\ shootingBubble' = s.shootingBubble
  /\ timers' = Adopt(s.timers, {})
  /\ score' = s.score
  /\ availableColorCount' = s.availableColorCount
  /\ descentInterval' = s.descentInterval
  /\ descentTimer' = s.descentTimer
  /\ warningTimer' = s.warningTimer
  /\ warningCountdown' = s.warningCountdown
  /\ gameOverTimeout' = s.gameOverTimeout
  /\ isGameOver' = s.isGameOver
  /\ isPaused' = s.isPaused
  /\ initialsReceived' = s.initialsReceived
  /\ currentBubbleColor' = s.currentBubbleColor
  /\ nextBubbleColor' = s.nextBubbleColor
  /\ aimAngle' = s.aimAngle
  /\ isAiming' = s.isAiming
  /\ trajectoryGraphics' = s.trajectoryGraphics
  /\ nextId' = s.nextId
  /\ inputs' = s.inputs
  /\ descents' = s.descents
  /\ isHighScore' = s.isHighScore
  /\ leaderboard' = s.leaderboard
  /\ UNCHANGED << relayVars, storage >>

\* ------------------------------------------------------------ progression
RECURSIVE ColorLoop(_, _, _)
ColorLoop(i, count, sc) ==
  IF i > Len(COLOR_THRESHOLDS) THEN count
  ELSE IF sc >= COLOR_THRESHOLDS[i].score /\ COLOR_THRESHOLDS[i].colors > count
       THEN ColorLoop(i + 1, COLOR_THRESHOLDS[i].colors, sc)
       ELSE ColorLoop(i + 1, count, sc)

\* checkColorProgression unlocking one colour a call.
checkColorProgressionByOne(s) ==
  [s EXCEPT !.availableColorCount =
     IF ColorLoop(1, s.availableColorCount, s.score) > s.availableColorCount
     THEN s.availableColorCount + 1 ELSE s.availableColorCount]

checkColorProgression(s) ==
  [s EXCEPT !.availableColorCount = ColorLoop(1, s.availableColorCount, s.score)]

\* The calls of showNewColorIndicator that checkColorProgression makes with
\* the scene s: the colours announced, in order.
showNewColorIndicator(s) ==
  LET count == ColorLoop(1, s.availableColorCount, s.score)
  IN IF count > s.availableColorCount THEN << ALL_BUBBLE_COLORS[count] >> ELSE << >>

RECURSIVE IntervalLoop(_, _, _)
IntervalLoop(i, interval, sc) ==
  IF i > Len(DESCENT_SPEED_THRESHOLDS) THEN interval
  ELSE IF sc >= DESCENT_SPEED_THRESHOLDS[i].score
       THEN IntervalLoop(i + 1, DESCENT_SPEED_THRESHOLDS[i].interval, sc)
       ELSE IntervalLoop(i + 1, interval, sc)

getDescentIntervalForScore(sc) ==
  LET interval == IntervalLoop(1, INITIAL_DESCENT_INTERVAL, sc)
  IN IF interval > MIN_DESCENT_INTERVAL THEN interval ELSE MIN_DESCENT_INTERVAL

getAvailableColors(s) == SubSeq(ALL_BUBBLE_COLORS, 1, s.availableColorCount)

\* Phaser.Utils.Array.GetRandom(availableColors): u is the index it draws.
getRandomAvailableColor(s, u) == getAvailableColors(s)[u + 1]

\* ------------------------------------------------------------ descent timer
startDescentTimer(s) ==
  IF s.isGameOver THEN s
  ELSE [s EXCEPT
          !.timers = Arm(Unref(@, "descentTimer"),
                         [NewTimer("idle", s.descentInterval - DESCENT_WARNING_TIME)
                            EXCEPT !.ref = "descentTimer"]),
          !.descentTimer = EVENT]

\* updateDescentInterval taking over the new interval only with the restart.
updateDescentIntervalIdleOnly(s) ==
  LET newInterval == getDescentIntervalForScore(s.score)
  IN IF newInterval # s.descentInterval /\ s.descentTimer # NULL /\ s.warningTimer = NULL
     THEN startDescentTimer([s EXCEPT !.descentInterval = newInterval,
                                      !.timers = RemoveRef(@, "descentTimer")])
     ELSE s

updateDescentInterval(s) ==
  LET newInterval == getDescentIntervalForScore(s.score)
  IN IF newInterval # s.descentInterval
     THEN LET s1 == [s EXCEPT !.descentInterval = newInterval]
          IN IF s1.descentTimer # NULL /\ s1.warningTimer = NULL
             THEN startDescentTimer([s1 EXCEPT !.timers = RemoveRef(@, "descentTimer")])
             ELSE s1
     ELSE s

updateScore(s, points) ==
  updateDescentInterval(checkColorProgression([s EXCEPT !.score = @ + points]))

hideWarningIndicator(s) ==
  [s EXCEPT !.warningTimer = NULL, !.timers = Unref(@, "warningTimer")]

\* startWarningCountdown without the test of isPaused.
startWarningCountdownWhilePaused(s) ==
  IF s.isGameOver THEN startDescentTimer(s)
  ELSE [s EXCEPT
          !.warningCountdown = 3,
          !.timers = Arm(Unref(@, "warningTimer"),
                         [NewTimer("warn", 1000) EXCEPT !.left = 2, !.ref = "warningTimer"]),
          !.warningTimer = EVENT]

startWarningCountdown(s) ==
  IF s.isGameOver \/ s.isPaused THEN startDescentTimer(s)
  ELSE [s EXCEPT
          !.warningCountdown = 3,
          !.timers = Arm(Unref(@, "warningTimer"),
                         [NewTimer("warn", 1000) EXCEPT !.left = 2, !.ref = "warningTimer"]),
          !.warningTimer = EVENT]

\* ------------------------------------------------------------ leaderboard
\* localStorage[LEADERBOARD_KEY] as the sequence that loadLeaderboard parses.
RECURSIVE InsertIndex(_, _, _)
InsertIndex(board, sc, i) ==
  IF i > Len(board) THEN Len(board) + 1
  ELSE IF sc > board[i].score THEN i
  ELSE InsertIndex(board, sc, i + 1)

\* Array.prototype.splice(insertIndex, 0, entry); indices from 1
Splice(board, i, entry) ==
  [j \in 1..(Len(board) + 1) |-> IF j < i THEN board[j]
                                 ELSE IF j = i THEN entry ELSE board[j - 1]]

RECURSIVE KeepTop(_)
KeepTop(board) ==
  IF Len(board) > MAX_LEADERBOARD_ENTRIES THEN KeepTop(SubSeq(board, 1, Len(board) - 1))
  ELSE board

\* addToLeaderboard pushing the entry at the end.
addToLeaderboardAtEnd(board, initials, sc, date) ==
  KeepTop(Splice(board, Len(board) + 1, [initials |-> initials, score |-> sc, date |-> date]))

addToLeaderboard(board, initials, sc, date) ==
  KeepTop(Splice(board, InsertIndex(board, sc, 1),
                 [initials |-> initials, score |-> sc, date |-> date]))

\* Date.now() of the next entry: later than every stored entry.
RECURSIVE LatestDate(_, _)
LatestDate(board, i) ==
  IF i > Len(board) THEN 0
  ELSE LET rest == LatestDate(board, i + 1)
       IN IF board[i].date > rest THEN board[i].date ELSE rest

\* loadLeaderboard: the stored array, [] when localStorage throws.
loadLeaderboard(s) == IF s.storage THEN s.leaderboard ELSE << >>

\* saveLeaderboard: setItem, ignored when localStorage throws.
saveLeaderboard(s, board) == IF s.storage THEN [s EXCEPT !.leaderboard = board] ELSE s

RECURSIVE BeatsFrom(_, _, _)
BeatsFrom(board, sc, i) ==
  IF i > Len(board) THEN FALSE
  ELSE IF sc > board[i].score THEN TRUE
  ELSE BeatsFrom(board, sc, i + 1)

\* checkHighScore(score).isHighScore
checkHighScore(s, sc) ==
  LET board == loadLeaderboard(s)
  IN IF Len(board) < MAX_LEADERBOARD_ENTRIES THEN TRUE ELSE BeatsFrom(board, sc, 1)

\* ------------------------------------------------------------ game over
triggerGameOver(s) ==
  LET q1 == IF s.descentTimer # NULL THEN RemoveRef(s.timers, "descentTimer") ELSE s.timers
      q2 == IF s.warningTimer # NULL THEN RemoveRef(q1, "warningTimer") ELSE q1
      q3 == Unref(Unref(q2, "warningTimer"), "gameOverTimeout")
  IN [s EXCEPT
        !.isGameOver = TRUE, !.isPaused = TRUE, !.initialsReceived = FALSE,
        !.isHighScore = checkHighScore(s, s.score),
        !.warningTimer = NULL,
        !.timers = Arm(q3, [NewTimer("gameOverTimeout", 25000)
                              EXCEPT !.ref = "gameOverTimeout"]),
        !.gameOverTimeout = EVENT]

returnToWaitingScene(s) ==
  [s EXCEPT !.ws = "closed", !.scene = "stopping"]

handleSubmitInitials(s, initials) ==
  IF ~s.isGameOver \/ s.initialsReceived THEN s
  ELSE LET q == IF s.gameOverTimeout # NULL
                THEN RemoveRef(s.timers, "gameOverTimeout") ELSE s.timers
           board == loadLeaderboard(s)
           saved == IF initials # "" /\ s.isHighScore
                    THEN saveLeaderboard(s, addToLeaderboard(board, initials, s.score,
                                                             LatestDate(board, 1) + 1))
                    ELSE s
       IN [saved EXCEPT !.initialsReceived = TRUE, !.gameOverTimeout = NULL,
                        !.timers = Arm(q, NewTimer("toWaiting", 1500))]

\* ------------------------------------------------------------ grid updates
\* addBubbleToGrid without the test that the cell is empty.
addBubbleToGridUnchecked(s, row, col, color) ==
  IF ~isValidGridCell(row, col) THEN [s |-> s, bubble |-> NULL]
  ELSE LET bubbleData == [id |-> s.nextId, row |-> row, col |-> col, color |-> color]
       IN [s |-> [s EXCEPT !.gridBubbles = @ \cup {bubbleData}, !.nextId = @ + 1],
           bubble |-> bubbleData]

addBubbleToGrid(s, row, col, color) ==
  IF ~isValidGridCell(row, col) THEN [s |-> s, bubble |-> NULL]
  ELSE IF getBubbleAtCell(s.gridBubbles, row, col) # NULL THEN [s |-> s, bubble |-> NULL]
  ELSE LET bubbleData == [id |-> s.nextId, row |-> row, col |-> col, color |-> color]
       IN [s |-> [s EXCEPT !.gridBubbles = @ \cup {bubbleData}, !.nextId = @ + 1],
           bubble |-> bubbleData]

removeBubbleFromGrid(s, bid) ==
  [s EXCEPT !.gridBubbles = {b \in @ : b.id # bid}]

RECURSIVE PopLoop(_, _, _)
PopLoop(q, bubbles, i) ==
  IF i > Len(bubbles) THEN q
  ELSE PopLoop(Arm(q, [NewTimer("pop", (i - 1) * 30) EXCEPT !.bid = bubbles[i].id]),
               bubbles, i + 1)

popBubbles(s, bubbles) == [s EXCEPT !.timers = PopLoop(@, bubbles, 1)]

\* dropFloatingBubbles leaving the floating bubble of the highest id in the grid.
dropFloatingBubblesButOne(s, bubbles) ==
  LET kept == {b \in bubbles : \A o \in bubbles : o.id <= b.id}
      dropped == bubbles \ kept
  IN [s EXCEPT
        !.gridBubbles = @ \ dropped,
        !.fallingBubbles = @ \cup {[id |-> b.id, y |-> getGridPosition(b.row, b.col).y,
                                    velocityY |-> 0] : b \in dropped}]

dropFloatingBubbles(s, bubbles) ==
  [s EXCEPT
     !.gridBubbles = @ \ bubbles,
     !.fallingBubbles = @ \cup {[id |-> b.id, y |-> getGridPosition(b.row, b.col).y,
                                 velocityY |-> 0] : b \in bubbles}]

\* floatCheck crediting a dropped bubble like a popped one.
floatCheckPopPoints(s) ==
  LET floating == findFloatingBubbles(s.gridBubbles)
  IN IF floating # {}
     THEN updateScore(dropFloatingBubbles(s, floating), Cardinality(floating) * POINTS_PER_POP)
     ELSE s

\* The callback that checkAndPopMatches defers by 100 ms.
floatCheck(s) ==
  LET floating == findFloatingBubbles(s.gridBubbles)
  IN IF floating # {}
     THEN updateScore(dropFloatingBubbles(s, floating), Cardinality(floating) * POINTS_PER_FALL)
     ELSE s

\* checkAndPopMatches with the threshold off by one.
checkAndPopMatchesOver3(s, newBubble) ==
  LET connected == findConnectedBubbles(s.gridBubbles, newBubble)
  IN IF Len(connected) > 3
     THEN LET s1 == popBubbles(s, connected)
              s2 == [s1 EXCEPT !.timers = Arm(@, NewTimer("float", 100))]
          IN updateScore(s2, Len(connected) * POINTS_PER_POP)
     ELSE s

checkAndPopMatches(s, newBubble) ==
  LET connected == findConnectedBubbles(s.gridBubbles, newBubble)
  IN IF Len(connected) >= 3
     THEN LET s1 == popBubbles(s, connected)
              s2 == [s1 EXCEPT !.timers = Arm(@, NewTimer("float", 100))]
          IN updateScore(s2, Len(connected) * POINTS_PER_POP)
     ELSE s

\* onComplete of the 50 ms snap tween (t holds the target cell and colour).
snapComplete(s, t) ==
  LET r == addBubbleToGrid(s, t.row, t.col, t.color)
      s1 == IF r.bubble # NULL THEN checkAndPopMatches(r.s, r.bubble) ELSE r.s
  IN [s1 EXCEPT !.timers = Arm(@, NewTimer("goSettle", 150))]

settleGameOverCheck(s) ==
  IF ~s.isGameOver /\ checkGameOver(s.gridBubbles) THEN triggerGameOver(s) ELSE s

\* addNewTopRow with the column count of an odd row.
addNewTopRowShort(s, rnd) ==
  [s EXCEPT
     !.gridBubbles = @ \cup {[id |-> s.nextId + c, row |-> 0, col |-> c,
                               color |-> getRandomAvailableColor(s, rnd[c])]
                              : c \in 0..(bubblesPerRow - 2)},
     !.nextId = @ + bubblesPerRow]

addNewTopRow(s, rnd) ==
  [s EXCEPT
     !.gridBubbles = @ \cup {[id |-> s.nextId + c, row |-> 0, col |-> c, color |-> getRandomAvailableColor(s, rnd[c])]
                              : c \in 0..(bubblesPerRow - 1)},
     !.nextId = @ + bubblesPerRow]

descentGameOverCheck(s) ==
  IF checkGameOver(s.gridBubbles) THEN triggerGameOver(s) ELSE startDescentTimer(s)

descendGrid(s, rnd) ==
  IF s.isGameOver THEN s
  ELSE LET s1 == [s EXCEPT !.gridBubbles = {[b EXCEPT !.row = @ + 1] : b \in @},
                           !.descents = @ + 1]
           s2 == addNewTopRow(s1, rnd)
       IN [s2 EXCEPT !.timers = Arm(@, NewTimer("goDescent", 250))]

\* One firing of the repeating warning event.
warningTick(s, rnd) ==
  LET s1 == [s EXCEPT !.warningCountdown = @ - 1]
  IN IF s1.warningCountdown <= 0 THEN descendGrid(hideWarningIndicator(s1), rnd) ELSE s1

gameOverTimeoutFired(s) ==
  IF s.isGameOver /\ ~s.initialsReceived THEN returnToWaitingScene(s) ELSE s

\* ------------------------------------------------------------ the shot
\* The table key of a launch angle above 0 so small (under 2e-13 degrees at
\* 60 frames a second) that the vertical step velocityY * delta of a frame is
\* less than half the spacing of the doubles at shooterY: bubble.y +=
\* velocityY * delta rounds to the old bubble.y.  Its sine is below the
\* resolution of the table as it is below that of the position.
Grazing == 1

\* Math.cos and Math.sin of the launch angle, in 1/1000.
CosMilli(angle) ==
  CASE angle = 0 -> 1000 [] angle = Grazing -> 1000 [] angle = 20 -> 940
    [] angle = 30 -> 866 [] angle = 45 -> 707
    [] angle = 60 -> 500 [] angle = 90 -> 0 [] angle = 120 -> -500
    [] angle = 135 -> -707 [] angle = 150 -> -866 [] angle = 180 -> -1000

SinMilli(angle) ==
  CASE angle = 0 -> 0 [] angle = Grazing -> 0 [] angle = 20 -> 342
    [] angle = 30 -> 500 [] angle = 45 -> 707
    [] angle = 60 -> 866 [] angle = 90 -> 1000 [] angle = 120 -> 866
    [] angle = 135 -> 707 [] angle = 150 -> 500 [] angle = 180 -> 0

\* n / d truncated towards zero, for the products of a velocity and a time.
Quot(n, d) == IF n >= 0 THEN n \div d ELSE -((-n) \div d)

\* stickBubble ending the session when it discards the shot.
stickBubbleEndingSession(s, bubble) ==
  LET targetCell == findNearestEmptyCell(s.gridBubbles, bubble.x, bubble.y)
      snaps == /\ targetCell # NULL
               /\ hasAdjacentBubble(s.gridBubbles, targetCell.row, targetCell.col)
  IN IF snaps
     THEN [s EXCEPT
             !.timers = Arm(@, [NewTimer("snap", 50) EXCEPT !.row = targetCell.row,
                                  !.col = targetCell.col, !.color = bubble.color]),
             !.shootingBubble = NULL]
     ELSE triggerGameOver([s EXCEPT !.shootingBubble = NULL])

\* stickBubble taking only the cell nearest to the stop point, without the
\* search of the cells around it.
stickBubbleOwnCell(s, bubble) ==
  LET targetCell == getGridCell(bubble.x, bubble.y)
      snaps == /\ isValidGridCell(targetCell.row, targetCell.col)
               /\ ~CellOccupied(s.gridBubbles, targetCell.row, targetCell.col)
               /\ hasAdjacentBubble(s.gridBubbles, targetCell.row, targetCell.col)
  IN [s EXCEPT
        !.timers = IF snaps
                   THEN Arm(@, [NewTimer("snap", 50) EXCEPT !.row = targetCell.row,
                                  !.col = targetCell.col, !.color = bubble.color])
                   ELSE @,
        !.shootingBubble = NULL]

stickBubble(s, bubble) ==
  LET targetCell == findNearestEmptyCell(s.gridBubbles, bubble.x, bubble.y)
      snaps == /\ targetCell # NULL
               /\ hasAdjacentBubble(s.gridBubbles, targetCell.row, targetCell.col)
  IN [s EXCEPT
        !.timers = IF snaps
                   THEN Arm(@, [NewTimer("snap", 50) EXCEPT !.row = targetCell.row,
                                  !.col = targetCell.col, !.color = bubble.color])
                   ELSE @,
        !.shootingBubble = NULL]

updateShootingBubble(s) ==
  LET b == s.shootingBubble
      x1 == b.x + Quot(b.velocityX * FrameMs, 1000)
      y1 == b.y + Quot(b.velocityY * FrameMs, 1000)
      hitLeft == x1 - BUBBLE_RADIUS <= gameArea.left
      hitRight == ~hitLeft /\ x1 + BUBBLE_RADIUS >= gameArea.right
      x2 == IF hitLeft THEN gameArea.left + BUBBLE_RADIUS
            ELSE IF hitRight THEN gameArea.right - BUBBLE_RADIUS ELSE x1
      vx == IF hitLeft THEN Abs(b.velocityX)
            ELSE IF hitRight THEN -Abs(b.velocityX) ELSE b.velocityX
      moved == [b EXCEPT !.x = x2, !.y = y1, !.velocityX = vx]
  IN IF y1 - BUBBLE_RADIUS <= gameArea.top
     THEN stickBubble(s, [moved EXCEPT !.y = gameArea.top + BUBBLE_RADIUS])
     ELSE IF checkGridCollision(s.gridBubbles, x2, y1)
     THEN stickBubble(s, moved)
     ELSE [s EXCEPT !.shootingBubble = moved]

updateFallingBubbles(s) ==
  LET step(f) == LET v == f.velocityY + Quot(FALL_GRAVITY * FrameMs, 1000)
                 IN [f EXCEPT !.velocityY = v, !.y = @ + Quot(v * FrameMs, 1000)]
  IN [s EXCEPT !.fallingBubbles =
        {g \in {step(f) : f \in @} : ~(g.y > CanvasHeight + 5000)}]

update(s) ==
  IF s.isPaused THEN s
  ELSE updateFallingBubbles(
         IF s.shootingBubble # NULL /\ s.shootingBubble.active
         THEN updateShootingBubble(s) ELSE s)

\* handleShoot without the test for a shot in flight.
handleShootUnguarded(s, angle, rnd) ==
  IF s.isPaused THEN s
  ELSE [s EXCEPT
          !.trajectoryGraphics = << >>,
          !.isAiming = FALSE,
          !.shootingBubble =
             [x |-> shooterX, y |-> shooterY,
              velocityX |-> Quot(CosMilli(angle) * BUBBLE_SPEED, 1000),
              velocityY |-> -Quot(SinMilli(angle) * BUBBLE_SPEED, 1000),
              active |-> TRUE, color |-> s.currentBubbleColor],
          !.currentBubbleColor = s.nextBubbleColor,
          !.nextBubbleColor = getRandomAvailableColor(s, rnd)]

handleShoot(s, angle, rnd) ==
  IF s.isPaused THEN s
  ELSE IF s.shootingBubble # NULL /\ s.shootingBubble.active THEN s
  ELSE [s EXCEPT
          !.trajectoryGraphics = << >>,
          !.isAiming = FALSE,
          !.shootingBubble =
             [x |-> shooterX, y |-> shooterY,
              velocityX |-> Quot(CosMilli(angle) * BUBBLE_SPEED, 1000),
              velocityY |-> -Quot(SinMilli(angle) * BUBBLE_SPEED, 1000),
              active |-> TRUE, color |-> s.currentBubbleColor],
          !.currentBubbleColor = s.nextBubbleColor,
          !.nextBubbleColor = getRandomAvailableColor(s, rnd)]

\* ------------------------------------------------------------ the preview
RECURSIVE TrajectoryLoop(_, _, _, _, _, _, _, _)
\* The loop of drawTrajectory (stepSize 10, maxSteps 200, maxBounces 3); of
\* `points` the start, the bounce points and the end point are kept, the
\* points added every third step lie on the segments between them.
TrajectoryLoop(grid, step, x, y, dx, dy, bounces, points) ==
  IF ~(step < 200 /\ bounces <= 3) THEN points
  ELSE LET x1 == x + dx
           y1 == y + dy
           hitLeft == x1 - BUBBLE_RADIUS <= gameArea.left
           hitRight == ~hitLeft /\ x1 + BUBBLE_RADIUS >= gameArea.right
           x2 == IF hitLeft THEN gameArea.left + BUBBLE_RADIUS
                 ELSE IF hitRight THEN gameArea.right - BUBBLE_RADIUS ELSE x1
           dx2 == IF hitLeft THEN Abs(dx) ELSE IF hitRight THEN -Abs(dx) ELSE dx
           b2 == IF hitLeft \/ hitRight THEN bounces + 1 ELSE bounces
           p2 == IF hitLeft \/ hitRight
                 THEN Append(points, [x |-> x2, y |-> y1, bounce |-> TRUE]) ELSE points
       IN IF y1 - BUBBLE_RADIUS <= gameArea.top
          THEN Append(p2, [x |-> x2, y |-> gameArea.top + BUBBLE_RADIUS, bounce |-> FALSE])
          ELSE IF checkGridCollision(grid, x2, y1)
          THEN Append(p2, [x |-> x2, y |-> y1, bounce |-> FALSE])
          ELSE TrajectoryLoop(grid, step + 1, x2, y1, dx2, dy, b2, p2)

RECURSIVE TrajectorySteps(_, _, _, _, _, _, _)
\* The iterations that the loop of drawTrajectory runs.
TrajectorySteps(grid, step, x, y, dx, dy, bounces) ==
  IF ~(step < 200 /\ bounces <= 3) THEN step
  ELSE LET x1 == x + dx
           y1 == y + dy
           hitLeft == x1 - BUBBLE_RADIUS <= gameArea.left
           hitRight == ~hitLeft /\ x1 + BUBBLE_RADIUS >= gameArea.right
           x2 == IF hitLeft THEN gameArea.left + BUBBLE_RADIUS
                 ELSE IF hitRight THEN gameArea.right - BUBBLE_RADIUS ELSE x1
           dx2 == IF hitLeft THEN Abs(dx) ELSE IF hitRight THEN -Abs(dx) ELSE dx
           b2 == IF hitLeft \/ hitRight THEN bounces + 1 ELSE bounces
       IN IF y1 - BUBBLE_RADIUS <= gameArea.top \/ checkGridCollision(grid, x2, y1)
          THEN step + 1
          ELSE TrajectorySteps(grid, step + 1, x2, y1, dx2, dy, b2)

drawTrajectory(s, angle) ==
  [s EXCEPT !.trajectoryGraphics =
     TrajectoryLoop(s.gridBubbles, 0, shooterX, shooterY, CosMilli(angle),
                    -SinMilli(angle), 0,
                    <<[x |-> shooterX, y |-> shooterY, bounce |-> FALSE]>>)]

\* handleAim without the test of isPaused.
handleAimWhilePaused(s, angle) ==
  drawTrajectory([s EXCEPT !.isAiming = TRUE, !.aimAngle = angle], angle)

handleAim(s, angle) ==
  IF s.isPaused THEN s
  ELSE drawTrajectory([s EXCEPT !.isAiming = TRUE, !.aimAngle = angle], angle)

\* ------------------------------------------------------------ connection
showDisconnectOverlay(s) == [s EXCEPT !.isPaused = TRUE]
hideDisconnectOverlay(s) == [s EXCEPT !.isPaused = FALSE]
onControllerDisconnected(s) == showDisconnectOverlay(s)
onControllerReconnected(s) == hideDisconnectOverlay(s)
onServerDisconnected(s) == showDisconnectOverlay([s EXCEPT !.ws = "closed"])

\* ------------------------------------------------------------ scene start
InitCells ==
  {<<row, col>> \in (0..(GRID_ROWS - 1)) \X (0..(bubblesPerRow - 1)) :
     col < (IF IsOddRow(row) THEN bubblesPerRow - 1 ELSE bubblesPerRow)}

\* The draws of createInitialBubbles that the model explores, rows 0..4.
Layouts ==
  { << <<1, 1, 1>>, <<1, 1>>, <<0, 0, 0>>, <<0, 0>>, <<0, 1, 1>> >>,
    << <<1, 0, 1>>, <<0, 1>>, <<1, 1, 0>>, <<0, 0>>, <<0, 1, 0>> >> }
InitDraws == {[c \in InitCells |-> L[c[1] + 1][c[2] + 1]] : L \in Layouts}

\* The draws of create() for the current and the next bubble.
ShooterDraws == {<<0, 1>>, <<1, 0>>}

\* The draws of addNewTopRow that the model explores.
TopRowDraws == {[c \in 0..(bubblesPerRow - 1) |-> k] : k \in DrawColors}

RECURSIVE InitialLoop(_, _, _, _)
InitialLoop(s, rnd, row, col) ==
  IF row >= GRID_ROWS THEN s
  ELSE IF col >= (IF IsOddRow(row) THEN bubblesPerRow - 1 ELSE bubblesPerRow)
       THEN InitialLoop(s, rnd, row + 1, 0)
       ELSE InitialLoop(addBubbleToGrid(s, row, col, getRandomAvailableColor(s, rnd[<<row, col>>])).s, rnd, row, col + 1)

createInitialBubbles(s, rnd) == InitialLoop(s, rnd, 0, 0)

\* init leaving the pause of the session before in place.
initKeepingPause(s) ==
  LET q1 == IF s.descentTimer # NULL THEN RemoveRef(s.timers, "descentTimer") ELSE s.timers
      q2 == IF s.warningTimer # NULL THEN RemoveRef(q1, "warningTimer") ELSE q1
  IN [s EXCEPT
        !.ws = "open", !.isGameOver = FALSE, !.score = 0,
        !.isHighScore = FALSE,
        !.availableColorCount = 4, !.descentInterval = INITIAL_DESCENT_INTERVAL,
        !.descentTimer = NULL, !.warningTimer = NULL, !.timers = q2]

\* GameScene.init(data)
init(s) ==
  LET q1 == IF s.descentTimer # NULL THEN RemoveRef(s.timers, "descentTimer") ELSE s.timers
      q2 == IF s.warningTimer # NULL THEN RemoveRef(q1, "warningTimer") ELSE q1
  IN [s EXCEPT
        !.ws = "open", !.isGameOver = FALSE, !.isPaused = FALSE, !.score = 0,
        !.isHighScore = FALSE,
        !.availableColorCount = 4, !.descentInterval = INITIAL_DESCENT_INTERVAL,
        !.descentTimer = NULL, !.warningTimer = NULL, !.timers = q2]

\* GameScene.create(); object identities and the session counts start anew.
create(s, rnd, c1, c2) ==
  LET s1 == [s EXCEPT
               !.scene = "game", !.gridBubbles = {}, !.fallingBubbles = {},
               !.shootingBubble = NULL, !.trajectoryGraphics = << >>,
               !.currentBubbleColor = getRandomAvailableColor(s, c1),
               !.nextBubbleColor = getRandomAvailableColor(s, c2),
               !.nextId = 0, !.inputs = 0, !.descents = 0]
  IN startDescentTimer(createInitialBubbles(s1, rnd))

\* ------------------------------------------------------------ relay server
\* server/index.js.  A room object outlives its entry in the rooms map (the
\* closures of its sockets and its expiry timer keep it), so the map holds
\* the index of the object in roomObjs.  A socket carries the clientRoom and
\* clientType of its connection closure.
Sockets == 1..MaxSockets
Codes == {"A", "B"}
Roles == {"desktop", "phone"}
RelayTypes == {"aim", "shoot"}
RelayData == {"45", "90"}
NoRoom == 0
NoSocket == 0
NoMessage == [by |-> NoSocket, type |-> "", data |-> ""]

RelayInit ==
  /\ rooms = [c \in Codes |-> NoRoom]
  /\ roomObjs = << >>
  /\ sockets = [s \in Sockets |-> [state |-> "new", clientRoom |-> NoRoom, clientType |-> ""]]
  /\ sent = {}
  /\ incoming = NoMessage

\* The server as one record; sent collects what the running handler sends.
Srv == [rooms |-> rooms, roomObjs |-> roomObjs, sockets |-> sockets, sent |-> {}]

\* by names the socket whose message is passed on (NoSocket: the server's own).
sendMessage(v, to, by, type, data, from) ==
  IF to # NoSocket /\ v.sockets[to].state = "open"
  THEN [v EXCEPT !.sent = @ \cup {[to |-> to, by |-> by, type |-> type,
                                   data |-> data, from |-> from]}]
  ELSE v

Slot(room, role) == IF role = "desktop" THEN room.desktop ELSE room.phone

SetSlot(room, role, sock) ==
  IF role = "desktop" THEN [room EXCEPT !.desktop = sock] ELSE [room EXCEPT !.phone = sock]

OtherRole(role) == IF role = "desktop" THEN "phone" ELSE "desktop"

\* generateRoomCode draws until the code is not in the map.
FreeCodes(v) == {c \in Codes : v.rooms[c] = NoRoom}

createRoom(v, code) ==
  [v EXCEPT !.roomObjs = Append(@, [code |-> code, desktop |-> NoSocket, phone |-> NoSocket,
                                    expiryTimeout |-> FALSE, pending |-> FALSE]),
            !.rooms[code] = Len(v.roomObjs) + 1]

\* expiryTimeout: the field holds a timer handle; pending: that timer has
\* neither fired nor been cleared.
clearTimeout(room) == [room EXCEPT !.pending = FALSE]

removeRoom(v, code) ==
  IF v.rooms[code] = NoRoom THEN v
  ELSE LET id == v.rooms[code]
           v1 == IF v.roomObjs[id].expiryTimeout
                 THEN [v EXCEPT !.roomObjs[id] = clearTimeout(@)] ELSE v
       IN [v1 EXCEPT !.rooms[code] = NoRoom]

scheduleRoomExpiry(v, id) ==
  LET room == v.roomObjs[id]
      r1 == IF room.expiryTimeout THEN clearTimeout(room) ELSE room
      r2 == IF r1.desktop = NoSocket /\ r1.phone = NoSocket
            THEN [r1 EXCEPT !.expiryTimeout = TRUE, !.pending = TRUE] ELSE r1
  IN [v EXCEPT !.roomObjs[id] = r2]

cancelRoomExpiry(v, id) ==
  IF v.roomObjs[id].expiryTimeout
  THEN [v EXCEPT !.roomObjs[id] = [clearTimeout(@) EXCEPT !.expiryTimeout = FALSE]]
  ELSE v

handleMessage(v, sock, id, clientType, message) ==
  LET targetClient == IF clientType = "desktop" THEN v.roomObjs[id].phone
                      ELSE v.roomObjs[id].desktop
  IN IF targetClient # NoSocket
     THEN sendMessage(v, targetClient, sock, message.type, message.data, clientType)
     ELSE v

handleDisconnect(v, id, clientType) ==
  LET v1 == [v EXCEPT !.roomObjs[id] = SetSlot(@, clientType, NoSocket)]
      otherClient == IF clientType = "desktop" THEN v1.roomObjs[id].phone
                     ELSE v1.roomObjs[id].desktop
      v2 == IF otherClient # NoSocket
            THEN sendMessage(v1, otherClient, NoSocket, "peer_disconnected", clientType, "")
            ELSE v1
  IN scheduleRoomExpiry(v2, id)

\* ws.on('message'), type 'create_room'
onCreateRoom(v, sock, code) ==
  LET v1 == createRoom(v, code)
      id == v1.rooms[code]
      v2 == [v1 EXCEPT !.sockets[sock].clientRoom = id, !.sockets[sock].clientType = "desktop",
                       !.roomObjs[id].desktop = sock]
  IN sendMessage(v2, sock, NoSocket, "room_created", code, "")

\* ws.on('message'), data that JSON.parse rejects
onInvalidJson(v, sock) ==
  sendMessage(v, sock, NoSocket, "error", "Invalid JSON", "")

\* ws.on('message'), type 'join_room'
onJoinRoom(v, sock, roomCode) ==
  IF v.rooms[roomCode] = NoRoom
  THEN sendMessage(v, sock, NoSocket, "error", "Room not found", "")
  ELSE LET id == v.rooms[roomCode]
           v1 == cancelRoomExpiry(v, id)
           v2 == [v1 EXCEPT !.sockets[sock].clientRoom = id, !.sockets[sock].clientType = "phone",
                            !.roomObjs[id].phone = sock]
           v3 == sendMessage(v2, sock, NoSocket, "room_joined", roomCode, "")
       IN IF v3.roomObjs[id].desktop # NoSocket
          THEN sendMessage(v3, v3.roomObjs[id].desktop, NoSocket, "peer_connected", "phone", "")
          ELSE v3

\* ws.on('message'), type 'reconnect'
onReconnect(v, sock, roomCode, reconnectType) ==
  IF v.rooms[roomCode] = NoRoom
  THEN sendMessage(v, sock, NoSocket, "error", "Room expired or not found", "")
  ELSE LET id == v.rooms[roomCode]
           v1 == cancelRoomExpiry(v, id)
           v2 == [v1 EXCEPT !.sockets[sock].clientRoom = id,
                            !.sockets[sock].clientType = reconnectType,
                            !.roomObjs[id] = SetSlot(@, reconnectType, sock)]
           v3 == sendMessage(v2, sock, NoSocket, "reconnected", roomCode, "")
           otherClient == IF reconnectType = "desktop" THEN v3.roomObjs[id].phone
                          ELSE v3.roomObjs[id].desktop
       IN IF otherClient # NoSocket
          THEN sendMessage(v3, otherClient, NoSocket, "peer_reconnected", reconnectType, "")
          ELSE v3

\* ws.on('message'), any other type
onOtherMessage(v, sock, message) ==
  IF v.sockets[sock].clientRoom = NoRoom \/ v.sockets[sock].clientType = ""
  THEN sendMessage(v, sock, NoSocket, "error", "Not connected to a room", "")
  ELSE handleMessage(v, sock, v.sockets[sock].clientRoom, v.sockets[sock].clientType, message)

\* ws.on('close') and ws.on('error')
onClose(v, sock) ==
  IF v.sockets[sock].clientRoom # NoRoom /\ v.sockets[sock].clientType # ""
  THEN handleDisconnect(v, v.sockets[sock].clientRoom, v.sockets[sock].clientType)
  ELSE v

\* The callback of the expiry timer of room object id.
expiryFired(v, id) ==
  removeRoom([v EXCEPT !.roomObjs[id].pending = FALSE], v.roomObjs[id].code)

\* ------------------------------------------------------------ the machine
\* The page after loading; available tells whether localStorage works.
PageLoaded(available) ==
  /\ scene = "waiting"
  /\ ws = "closed"
  /\ phase = "events"
  /\ gridBubbles = {}
  /\ fallingBubbles = {}
  /\ shootingBubble = NULL
  /\ timers = << >>
  /\ score = 0
  /\ availableColorCount = 4
  /\ descentInterval = INITIAL_DESCENT_INTERVAL
  /\ descentTimer = NULL
  /\ warningTimer = NULL
  /\ warningCountdown = 0
  /\ gameOverTimeout = NULL
  /\ isGameOver = FALSE
  /\ isPaused = FALSE
  /\ initialsReceived = FALSE
  /\ currentBubbleColor = NoColor
  /\ nextBubbleColor = NoColor
  /\ aimAngle = 90
  /\ isAiming = FALSE
  /\ trajectoryGraphics = << >>
  /\ nextId = 0
  /\ inputs = 0
  /\ descents = 0
  /\ RelayInit
  /\ leaderboard = << >>
  /\ isHighScore = FALSE
  /\ storage = available

\* A browser whose localStorage throws: loadLeaderboard returns [] each time.
Init == PageLoaded(FALSE)

\* A browser that keeps the leaderboard.
InitStored == PageLoaded(TRUE)

\* WaitingScene starts the game scene: init(data), then create().
StartGameScene ==
  /\ scene = "waiting"
  /\ \E rnd \in InitDraws, c \in ShooterDraws :
       Commit(create(init(St), rnd, c[1], c[2]))
  /\ phase' = "events"

Listening == scene = "game" /\ ws = "open" /\ phase = "events"

\* A session takes at most MaxInputs messages that change the scene; a
\* message that leaves the scene as it is is a stuttering step.
Receive(s1) ==
  /\ s1 # St
  /\ Commit([s1 EXCEPT !.inputs = @ + 1])

\* ws.onmessage, type 'shoot'
Shoot ==
  /\ Listening
  /\ inputs < MaxInputs
  /\ \E angle \in Angles, rnd \in DrawColors :
       Receive(handleShoot(St, angle, rnd))
  /\ phase' = phase

\* ws.onmessage, type 'aim'
Aim ==
  /\ Listening
  /\ inputs < MaxInputs
  /\ \E angle \in AimAngles : Receive(handleAim(St, angle))
  /\ phase' = phase

\* ws.onmessage, type 'peer_disconnected'
PeerDisconnected ==
  /\ Listening
  /\ inputs < MaxInputs
  /\ Receive(onControllerDisconnected(St))
  /\ phase' = phase

\* ws.onmessage, type 'peer_connected' or 'peer_reconnected'
PeerConnected ==
  /\ Listening
  /\ inputs < MaxInputs
  /\ Receive(onControllerReconnected(St))
  /\ phase' = phase

\* ws.onmessage, type 'submit_initials'
SubmitInitials ==
  /\ Listening
  /\ \E initials \in Initials : Commit(handleSubmitInitials(St, initials))
  /\ phase' = phase

\* ws.onclose / ws.onerror
ServerDisconnected ==
  /\ Listening
  /\ inputs < MaxInputs
  /\ Receive(onServerDisconnected(St))
  /\ phase' = phase

\* The long events that may come due in the next frame: every shorter entry
\* armed before them is dispatched by then.
LongReadyWithin(cap) ==
  {i \in DOMAIN timers :
     /\ IsLong(timers[i])
     /\ \A k \in DOMAIN timers :
          (~IsLong(timers[k]) /\ timers[i].lid \in timers[k].blk)
             => timers[k].rem - FrameMs <= 0
     /\ (timers[i].kind = "idle" => descents < cap)}

LongReady == LongReadyWithin(MaxDescents)

\* A game step begins: FrameMs have passed since the last one.
Tick ==
  /\ scene = "game"
  /\ phase = "events"
  /\ \E j \in {0} \cup LongReady :
       timers' = [i \in DOMAIN timers |->
                    IF IsLong(timers[i]) THEN [timers[i] EXCEPT !.due = (i = j)]
                    ELSE [timers[i] EXCEPT !.rem = @ - FrameMs,
                                           !.due = (timers[i].rem - FrameMs <= 0)]]
  /\ phase' = "frame"
  /\ UNCHANGED << scene, ws, gridBubbles, fallingBubbles, shootingBubble, score,
                  availableColorCount, descentInterval, descentTimer, warningTimer,
                  warningCountdown, gameOverTimeout, isGameOver, isPaused,
                  initialsReceived, currentBubbleColor, nextBubbleColor, aimAngle,
                  isAiming, trajectoryGraphics, nextId, inputs, descents,
                  relayVars, leaderboard, isHighScore, storage >>

DueClock(q) == {i \in DOMAIN q : q[i].due /\ q[i].kind # "snap"}
DueTween(q) == {i \in DOMAIN q : q[i].due /\ q[i].kind = "snap"}
Min(S) == CHOOSE x \in S : \A y \in S : x <= y

\* The entry dispatched next: scene.time before scene.tweens, each in order.
NextDue(q) == IF DueClock(q) # {} THEN Min(DueClock(q)) ELSE Min(DueTween(q))

\* The queue once entry i has been dispatched: a repeating event with
\* repeats left starts its next period, any other entry leaves the queue.
Dispatched(q, i) ==
  IF q[i].kind = "warn" /\ q[i].left > 0
  THEN Block([q EXCEPT ![i].left = @ - 1, ![i].due = FALSE], q[i].lid)
  ELSE RemoveAt(q, i)

Callback(s, t, rnd) ==
  CASE t.kind = "pop" -> removeBubbleFromGrid(s, t.bid)
    [] t.kind = "float" -> floatCheck(s)
    [] t.kind = "snap" -> snapComplete(s, t)
    [] t.kind = "goSettle" -> settleGameOverCheck(s)
    [] t.kind = "goDescent" -> descentGameOverCheck(s)
    [] t.kind = "idle" -> startWarningCountdown(s)
    [] t.kind = "warn" -> warningTick(s, rnd)
    [] t.kind = "gameOverTimeout" -> gameOverTimeoutFired(s)
    [] t.kind = "toWaiting" -> returnToWaitingScene(s)

\* scene.time / scene.tweens dispatch one due entry.
FireTimer ==
  /\ phase = "frame"
  /\ DueClock(timers) \cup DueTween(timers) # {}
  /\ LET i == NextDue(timers)
         t == timers[i]
         s0 == [St EXCEPT !.timers = Dispatched(@, i)]
     IN \E rnd \in IF t.kind = "warn" THEN TopRowDraws
                   ELSE {[c \in 0..(bubblesPerRow - 1) |-> 0]} :
          Commit([Callback(s0, t, rnd) EXCEPT !.timers = Adopt(@, t.blk)])
  /\ phase' = phase

\* Update with a scene stop that leaves the clock's events and the tweens pending.
UpdateKeepingTimers ==
  /\ phase = "frame"
  /\ DueClock(timers) \cup DueTween(timers) = {}
  /\ LET s1 == update(St)
     IN Commit(IF s1.scene = "stopping" THEN [s1 EXCEPT !.scene = "waiting"] ELSE s1)
  /\ phase' = "events"

\* The step ends: scene.update(), then a queued scene.start takes effect and
\* the stopped scene's timers and tweens are gone.
Update ==
  /\ phase = "frame"
  /\ DueClock(timers) \cup DueTween(timers) = {}
  /\ LET s1 == update(St)
     IN Commit(IF s1.scene = "stopping"
               THEN [s1 EXCEPT !.scene = "waiting", !.timers = << >>] ELSE s1)
  /\ phase' = "events"

Next ==
  \/ StartGameScene
  \/ Shoot
  \/ Aim
  \/ PeerDisconnected
  \/ PeerConnected
  \/ SubmitInitials
  \/ ServerDisconnected
  \/ Tick
  \/ FireTimer
  \/ Update

Spec == Init /\ [][Next]_vars

\* ------------------------------------------------- a session under way
\* The sessions that are under way with a score just below a threshold of
\* COLOR_THRESHOLDS / DESCENT_SPEED_THRESHOLDS: the grid is down to two rows,
\* the controller is connected, the idle timer of the descent has been armed.
MidScores == {470}
MidAngles == {90, Grazing}
MidRows == << <<0, 0, 1>>, <<0, 1>> >>

RECURSIVE MidLoop(_, _, _)
MidLoop(s, row, col) ==
  IF row >= Len(MidRows) THEN s
  ELSE IF col >= Len(MidRows[row + 1]) THEN MidLoop(s, row + 1, 0)
       ELSE MidLoop(addBubbleToGrid(s, row, col,
                       getRandomAvailableColor(s, MidRows[row + 1][col + 1])).s,
                    row, col + 1)

MidSession(sc, c1, c2) ==
  LET s0 == [scene |-> "game", ws |-> "open", gridBubbles |-> {},
             fallingBubbles |-> {}, shootingBubble |-> NULL, timers |-> << >>,
             score |-> sc, availableColorCount |-> ColorLoop(1, 4, sc),
             descentInterval |-> getDescentIntervalForScore(sc),
             descentTimer |-> NULL, warningTimer |-> NULL, warningCountdown |-> 0,
             gameOverTimeout |-> NULL, isGameOver |-> FALSE, isPaused |-> FALSE,
             initialsReceived |-> FALSE, currentBubbleColor |-> NoColor,
             nextBubbleColor |-> NoColor, aimAngle |-> 90, isAiming |-> FALSE,
             trajectoryGraphics |-> << >>, nextId |-> 0, inputs |-> 0,
             descents |-> 0, isHighScore |-> FALSE, leaderboard |-> << >>,
             storage |-> FALSE]
      s1 == [s0 EXCEPT !.currentBubbleColor = getRandomAvailableColor(s0, c1),
                       !.nextBubbleColor = getRandomAvailableColor(s0, c2)]
      s2 == startDescentTimer(MidLoop(s1, 0, 0))
  IN [s2 EXCEPT !.timers = Adopt(@, {})]

InitMidSession ==
  /\ phase = "events"
  /\ \E sc \in MidScores, c \in ShooterDraws :
       LET m == MidSession(sc, c[1], c[2])
       IN /\ scene = m.scene
          /\ ws = m.ws
          /\ gridBubbles = m.gridBubbles
          /\ fallingBubbles = m.fallingBubbles
          /\ shootingBubble = m.shootingBubble
          /\ timers = m.timers
          /\ score = m.score
          /\ availableColorCount = m.availableColorCount
          /\ descentInterval = m.descentInterval
          /\ descentTimer = m.descentTimer
          /\ warningTimer = m.warningTimer
          /\ warningCountdown = m.warningCountdown
          /\ gameOverTimeout = m.gameOverTimeout
          /\ isGameOver = m.isGameOver
          /\ isPaused = m.isPaused
          /\ initialsReceived = m.initialsReceived
          /\ currentBubbleColor = m.currentBubbleColor
          /\ nextBubbleColor = m.nextBubbleColor
          /\ aimAngle = m.aimAngle
          /\ isAiming = m.isAiming
          /\ trajectoryGraphics = m.trajectoryGraphics
          /\ nextId = m.nextId
          /\ inputs = m.inputs
          /\ descents = m.descents
          /\ RelayInit
          /\ leaderboard = << >>
          /\ isHighScore = FALSE
          /\ storage = FALSE

\* Tick for these sessions.
TickMidSession ==
  /\ scene = "game"
  /\ phase = "events"
  /\ \E j \in {0} \cup LongReadyWithin(MaxMidDescents) :
       timers' = [i \in DOMAIN timers |->
                    IF IsLong(timers[i]) THEN [timers[i] EXCEPT !.due = (i = j)]
                    ELSE [timers[i] EXCEPT !.rem = @ - FrameMs,
                                           !.due = (timers[i].rem - FrameMs <= 0)]]
  /\ phase' = "frame"
  /\ UNCHANGED << scene, ws, gridBubbles, fallingBubbles, shootingBubble, score,
                  availableColorCount, descentInterval, descentTimer, warningTimer,
                  warningCountdown, gameOverTimeout, isGameOver, isPaused,
                  initialsReceived, currentBubbleColor, nextBubbleColor, aimAngle,
                  isAiming, trajectoryGraphics, nextId, inputs, descents,
                  relayVars, leaderboard, isHighScore, storage >>

\* ws.onmessage, type 'shoot', for these sessions.
ShootMidSession ==
  /\ Listening
  /\ inputs < MaxMidInputs
  /\ \E angle \in MidAngles, rnd \in DrawColors :
       Receive(handleShoot(St, angle, rnd))
  /\ phase' = phase

PreviewAngles == {20, 90}

\* ws.onmessage, type 'aim', for these sessions.
AimMidSession ==
  /\ Listening
  /\ inputs < MaxMidInputs
  /\ \E angle \in PreviewAngles : Receive(handleAim(St, angle))
  /\ phase' = phase

NextMidSession ==
  \/ ShootMidSession
  \/ AimMidSession
  \/ TickMidSession
  \/ FireTimer
  \/ Update

SpecMidSession == InitMidSession /\ [][NextMidSession]_vars

\* ------------------------------------------------- the running game loop
\* The same sessions with the launch angles along the floor, under a game
\* loop that never stops: requestAnimationFrame calls the step of the game
\* again and again, each step advancing the clock, dispatching the due
\* events and calling update().
FlightAngles == {0, 180}

ShootFlight ==
  /\ Listening
  /\ inputs < MaxFlightInputs
  /\ \E angle \in FlightAngles, rnd \in DrawColors :
       Receive(handleShoot(St, angle, rnd))
  /\ phase' = phase

TickFlight ==
  /\ scene = "game"
  /\ phase = "events"
  /\ \E j \in {0} \cup LongReadyWithin(MaxFlightDescents) :
       timers' = [i \in DOMAIN timers |->
                    IF IsLong(timers[i]) THEN [timers[i] EXCEPT !.due = (i = j)]
                    ELSE [timers[i] EXCEPT !.rem = @ - FrameMs,
                                           !.due = (timers[i].rem - FrameMs <= 0)]]
  /\ phase' = "frame"
  /\ UNCHANGED << scene, ws, gridBubbles, fallingBubbles, shootingBubble, score,
                  availableColorCount, descentInterval, descentTimer, warningTimer,
                  warningCountdown, gameOverTimeout, isGameOver, isPaused,
                  initialsReceived, currentBubbleColor, nextBubbleColor, aimAngle,
                  isAiming, trajectoryGraphics, nextId, inputs, descents,
                  relayVars, leaderboard, isHighScore, storage >>

NextFlight ==
  \/ ShootFlight
  \/ TickFlight
  \/ FireTimer
  \/ Update

SpecFlight ==
  /\ InitMidSession
  /\ [][NextFlight]_vars
  /\ WF_vars(TickFlight) /\ WF_vars(FireTimer) /\ WF_vars(Update)

\* ------------------------------------------------- the relay server runs
\* The game scene stays as it is while the server handles its sockets.
sceneVars ==
  << scene, ws, phase, gridBubbles, fallingBubbles, shootingBubble, timers,
     score, availableColorCount, descentInterval, descentTimer, warningTimer,
     warningCountdown, gameOverTimeout, isGameOver, isPaused, initialsReceived,
     currentBubbleColor, nextBubbleColor, aimAngle, isAiming, trajectoryGraphics,
     nextId, inputs, descents, isHighScore, storage >>

CommitRelay(v, message) ==
  /\ rooms' = v.rooms
  /\ roomObjs' = v.roomObjs
  /\ sockets' = v.sockets
  /\ sent' = v.sent
  /\ incoming' = message
  /\ UNCHANGED << sceneVars, leaderboard >>

\* wss.on('connection')
Connect ==
  \E s \in Sockets :
    /\ sockets[s].state = "new"
    /\ CommitRelay([Srv EXCEPT !.sockets[s].state = "open"], NoMessage)

CreateRoomMessage ==
  \E s \in Sockets, code \in FreeCodes(Srv) :
    /\ sockets[s].state = "open"
    /\ Len(roomObjs) < MaxRooms
    /\ CommitRelay(onCreateRoom(Srv, s, code), NoMessage)

InvalidMessage ==
  \E s \in Sockets :
    /\ sockets[s].state = "open"
    /\ CommitRelay(onInvalidJson(Srv, s), NoMessage)

JoinRoomMessage ==
  \E s \in Sockets, code \in Codes :
    /\ sockets[s].state = "open"
    /\ CommitRelay(onJoinRoom(Srv, s, code), NoMessage)

ReconnectMessage ==
  \E s \in Sockets, code \in Codes, role \in Roles :
    /\ sockets[s].state = "open"
    /\ CommitRelay(onReconnect(Srv, s, code, role), NoMessage)

OtherMessage ==
  \E s \in Sockets, type \in RelayTypes, data \in RelayData :
    /\ sockets[s].state = "open"
    /\ LET message == [by |-> s, type |-> type, data |-> data]
       IN CommitRelay(onOtherMessage(Srv, s, message), message)

\* ws.on('error'): the socket fails; its 'close' event follows.
SocketError ==
  \E s \in Sockets :
    /\ sockets[s].state = "open"
    /\ CommitRelay(onClose([Srv EXCEPT !.sockets[s].state = "failed"], s), NoMessage)

\* ws.on('close')
SocketClose ==
  \E s \in Sockets :
    /\ sockets[s].state \in {"open", "failed"}
    /\ CommitRelay(onClose([Srv EXCEPT !.sockets[s].state = "closed"], s), NoMessage)

\* ROOM_EXPIRY_MS after scheduleRoomExpiry armed it, the timer fires.
ExpiryFires ==
  \E id \in DOMAIN roomObjs :
    /\ roomObjs[id].pending
    /\ CommitRelay(expiryFired(Srv, id), NoMessage)

NextRelay ==
  \/ Connect
  \/ CreateRoomMessage
  \/ InvalidMessage
  \/ JoinRoomMessage
  \/ ReconnectMessage
  \/ OtherMessage
  \/ SocketError
  \/ SocketClose
  \/ ExpiryFires

\* Node's event loop runs the callback of every timer that is due, and every
\* socket that has failed is closed.
SpecRelay ==
  /\ Init
  /\ [][NextRelay]_vars
  /\ WF_vars(ExpiryFires)
  /\ WF_vars(SocketClose)

\* ------------------------------------------------- the leaderboard is kept
LeaderScores == {30, 60, 90}
LeaderInitials == {"AAA"}

\* handleSubmitInitials saves a score.
AddToLeaderboard ==
  /\ LatestDate(leaderboard, 1) < MaxSaves
  /\ \E initials \in LeaderInitials, sc \in LeaderScores :
       leaderboard' = addToLeaderboard(leaderboard, initials, sc, LatestDate(leaderboard, 1) + 1)
  /\ UNCHANGED << sceneVars, relayVars >>

NextLeaderboard == AddToLeaderboard

SpecLeaderboard == InitStored /\ [][NextLeaderboard]_vars

\* ------------------------------------------------- one game over
\* One session in a browser that keeps the leaderboard: from the waiting scene
\* through the game over to the return to the waiting scene.
StartOnce == ~isGameOver /\ StartGameScene

NextGameOver ==
  \/ StartOnce
  \/ Shoot
  \/ SubmitInitials
  \/ Tick
  \/ FireTimer
  \/ Update

SpecGameOver == InitStored /\ [][NextGameOver]_vars

\* ------------------------------------------------------------ properties
\* The bubbles that createInitialBubbles settles.
InitialCount == Cardinality(InitCells)

\* The pending entries of a kind, and the bubbles that a pending pop removes.
Pending(kind) == {i \in DOMAIN timers : timers[i].kind = kind}
PopIds(q) == {q[i].bid : i \in {j \in DOMAIN q : q[j].kind = "pop"}}

\* b lies in a neighbouring cell of a.
Adjacent(a, b) ==
  LET n == getNeighbors(a.row, a.col)
  IN \E i \in 1..Len(n) : n[i].row = b.row /\ n[i].col = b.col

RECURSIVE Closure(_, _, _)
\* The bubbles linked to one of S by a chain of neighbours (of one colour
\* when sameColor).
Closure(grid, S, sameColor) ==
  LET T == S \cup {b \in grid : \E a \in S : /\ Adjacent(a, b)
                                             /\ (sameColor => a.color = b.color)}
  IN IF T = S THEN S ELSE Closure(grid, T, sameColor)

Component(grid, b) == Closure(grid, {b}, TRUE)
CeilingConnected(grid) == Closure(grid, {b \in grid : b.row = 0}, FALSE)

\* C1: whatever grid operations have run (insertion, removal, settle, pop,
\* float drop, descent with a new top row), no two settled bubbles of
\* gridBubbles have the same (row, col).
GridOccupancy ==
  \A a, b \in gridBubbles : (a.row = b.row /\ a.col = b.col) => a = b

\* A shot is about to settle in a cell that a descent has filled since the
\* cell was chosen.
GridOccupancyWitness ==
  /\ descents > 0
  /\ \E i \in Pending("snap") :
       /\ timers[i].due
       /\ CellOccupied(gridBubbles, timers[i].row, timers[i].col)

\* C2: in every reachable state every settled bubble is in a valid cell
\* (row >= 0; 0 <= col < bubblesPerRow on even rows, < bubblesPerRow - 1 on
\* odd rows), the bubbles that descendGrid has shifted included.
SettledCellsValid ==
  \A b \in gridBubbles : isValidGridCell(b.row, b.col)

\* A descent has shifted the last bubble of an even row into an odd row.
SettledCellsValidWitness ==
  /\ descents > 0
  /\ \E b \in gridBubbles : IsOddRow(b.row) /\ b.col = bubblesPerRow - 1

\* The snap tween that the running frame completes next, if any.
SnapNext ==
  /\ phase = "frame"
  /\ DueClock(timers) = {}
  /\ DueTween(timers) # {}

\* The settle that SnapNext announces: the grid with the shot inserted, the
\* inserted bubble, and the scene once the tween's onComplete has run.
Settle ==
  LET i == NextDue(timers)
      s0 == [St EXCEPT !.timers = Dispatched(@, i)]
  IN [s0 |-> s0,
      added |-> addBubbleToGrid(s0, timers[i].row, timers[i].col, timers[i].color),
      s1 |-> snapComplete(s0, timers[i])]

PopEntries(q) == SelectSeq(q, LAMBDA e : e.kind = "pop")

\* The pop rule at a settle: a component of fewer than 3 gets no removal,
\* each member of a component of 3 or more gets one.
PopThresholdAtSettle ==
  (SnapNext /\ Settle.added.bubble # NULL) =>
    LET comp == Component(Settle.added.s.gridBubbles, Settle.added.bubble)
    IN IF Cardinality(comp) < 3
       THEN /\ Settle.s1.gridBubbles = Settle.added.s.gridBubbles
            /\ PopEntries(Settle.s1.timers) = PopEntries(Settle.s0.timers)
       ELSE {m.id : m \in comp} \subseteq PopIds(Settle.s1.timers)

\* A removal that is pending stays pending until it has taken the bubble
\* out of the grid (or the scene, and its grid with it, is shut down).
PopRemovalKept ==
  \A bid \in PopIds(timers) :
    \/ bid \in PopIds(timers')
    \/ \A b \in gridBubbles' : b.id # bid
    \/ scene' = "waiting"

\* C3: when a shot bubble settles, a same-colour connected component of
\* fewer than 3 members loses none of them to the pop rule, and every member
\* of a component of 3 or more is removed from the grid.
PopThreshold == [][PopThresholdAtSettle /\ PopRemovalKept]_vars

\* A shot has settled beside one bubble of its colour: both stay, no removal
\* is pending.
PopThresholdWitness ==
  /\ Pending("goSettle") # {}
  /\ Pending("pop") = {}
  /\ \E b \in gridBubbles :
       b.id >= InitialCount /\ Cardinality(Component(gridBubbles, b)) = 2

\* C4: once the deferred float check that follows a pop has run (no removal
\* and no float check of the pop is pending any more), every bubble still
\* settled is in row 0 or linked to a row-0 bubble by a chain of occupied
\* neighbouring cells, whatever the size of the popped component.  Stated
\* for the bubbles of the initial grid, before the first descent.
FloatCheckLeavesConnected ==
  (descents = 0 /\ Pending("pop") = {} /\ Pending("float") = {}) =>
    {b \in gridBubbles : b.id < InitialCount} \subseteq CeilingConnected(gridBubbles)

\* C5: descendGrid moves every settled bubble from (r, c) to (r + 1, c) with
\* its colour, and fills row 0 with exactly bubblesPerRow new bubbles, one a
\* column, each of a colour of the unlocked palette.
DescentShiftsAndRefills ==
  (scene = "game" /\ ~isGameOver) =>
    \A rnd \in TopRowDraws :
      LET s1 == descendGrid(St, rnd)
          top == {b \in s1.gridBubbles : b.row = 0}
      IN /\ \A b \in gridBubbles : [b EXCEPT !.row = @ + 1] \in s1.gridBubbles
         /\ Cardinality(s1.gridBubbles) = Cardinality(gridBubbles) + bubblesPerRow
         /\ Cardinality(top) = bubblesPerRow
         /\ \A c \in 0..(bubblesPerRow - 1) : \E b \in top : b.col = c
         /\ \A b \in top :
              /\ b.id >= nextId
              /\ \E k \in 1..availableColorCount : b.color = ALL_BUBBLE_COLORS[k]

\* The grid has descended: the new row 0 is in place above the shifted rows.
DescentShiftsAndRefillsWitness ==
  /\ descents > 0
  /\ Pending("goDescent") # {}
  /\ Cardinality({b \in gridBubbles : b.row = 0 /\ b.id >= InitialCount}) = bubblesPerRow
  /\ \E b \in gridBubbles : b.row = GRID_ROWS

\* C6: after a descent a float check has run: once the descent's deferred
\* check is over, no settled bubble is without a link to row 0.  Stated for
\* a session in which nothing has popped.
DescentDetachesFloating ==
  (descents > 0 /\ score = 0 /\ Pending("goDescent") = {}) =>
    gridBubbles \subseteq CeilingConnected(gridBubbles)

\* A settled bubble that is not about to pop reaches the bottom boundary.
OverflowSettled ==
  \E b \in gridBubbles :
    /\ b.id \notin PopIds(timers)
    /\ getGridPosition(b.row, b.col).y + BUBBLE_RADIUS >= gameArea.bottom

\* C7: when a settle or a descent leaves a settled bubble with
\* y + BUBBLE_RADIUS >= gameArea.bottom, the session is terminal before the
\* grid descends again; and isGameOver is set only when such a bubble exists.
GameOverBeforeDescent ==
  [][/\ (descents' = descents + 1) => ~OverflowSettled
     /\ (~isGameOver /\ isGameOver') => checkGameOver(gridBubbles')]_vars

\* C8: once the session is terminal no descent, warning tick, deferred
\* removal or deferred float check takes effect: the settled grid and the
\* score stay as they are until the session is restarted.
TerminalFreezesGrid ==
  [][(isGameOver /\ isGameOver') =>
       (gridBubbles' = gridBubbles /\ score' = score)]_vars

\* C9: once the session is terminal, whatever aim, shoot and connection
\* messages follow, no bubble is put in flight and the preview is not
\* updated until the session is restarted.
TerminalFreezesInput ==
  [][(isGameOver /\ isGameOver') =>
       /\ ~(shootingBubble = NULL /\ shootingBubble' # NULL)
       /\ trajectoryGraphics' = trajectoryGraphics]_vars

\* C10: a shoot command that arrives while a shot bubble is in flight
\* changes nothing (the one field shootingBubble keeps the one bubble).
ShootRejectedInFlight ==
  (shootingBubble # NULL /\ shootingBubble.active) =>
    \A angle \in Angles, rnd \in DrawColors : handleShoot(St, angle, rnd) = St

\* A shot is in flight while the scene takes commands.
ShootRejectedInFlightWitness ==
  /\ Listening
  /\ ~isPaused
  /\ shootingBubble # NULL
  /\ shootingBubble.active

\* C11: while the scene is paused an aim message and a shoot message change
\* nothing: the aim angle, the preview, the bubble in flight, the current and
\* the next colour, the grid and the score are what they were.
PausedInputIgnored ==
  isPaused =>
    /\ \A angle \in Angles \cup AimAngles : handleAim(St, angle) = St
    /\ \A angle \in Angles, rnd \in DrawColors : handleShoot(St, angle, rnd) = St

\* A paused session that is not over, the controller still able to send, the
\* preview not showing the path of the angle sent and no bubble in flight.
PausedInputIgnoredWitness ==
  /\ Listening /\ isPaused /\ ~isGameOver
  /\ shootingBubble = NULL
  /\ \E angle \in AimAngles : handleAimWhilePaused(St, angle) # St

\* C12: while the scene is paused and the session is not over, no timer
\* callback acts: the grid does not descend, the warning countdown does not
\* tick, the bubble in flight and the falling bubbles stay where they are.
PausedDefersTimers ==
  [][(isPaused /\ isPaused' /\ ~isGameOver /\ scene' = scene)
       => /\ descents' = descents
          /\ warningCountdown' = warningCountdown
          /\ shootingBubble' = shootingBubble
          /\ fallingBubbles \subseteq fallingBubbles']_vars

\* The clock event of the given kind that the running frame dispatches next.
ClockNext(kind) ==
  /\ phase = "frame"
  /\ DueClock(timers) # {}
  /\ timers[NextDue(timers)].kind = kind

\* The scene with the entry dispatched next taken from the queue.
Taken == [St EXCEPT !.timers = Dispatched(@, NextDue(timers))]

EntriesOf(q, kind) == SelectSeq(q, LAMBDA e : e.kind = kind)

\* C13: when the idle timer fires while the scene is paused, no warning
\* countdown starts (no warning event, the counter untouched) and exactly one
\* idle timer is started, with the full delay descentInterval -
\* DESCENT_WARNING_TIME.
PausedIdleRestarts ==
  (ClockNext("idle") /\ isPaused /\ ~isGameOver) =>
    LET s1 == startWarningCountdown(Taken)
        idle == EntriesOf(s1.timers, "idle")
    IN /\ EntriesOf(s1.timers, "warn") = EntriesOf(Taken.timers, "warn")
       /\ s1.warningTimer = warningTimer
       /\ s1.warningCountdown = warningCountdown
       /\ Len(idle) = Len(EntriesOf(Taken.timers, "idle")) + 1
       /\ idle[Len(idle)].rem = descentInterval - DESCENT_WARNING_TIME
       /\ idle[Len(idle)].ref = "descentTimer"
       /\ s1.descentTimer # NULL

\* The idle timer is about to fire in a paused session that is not over.
PausedIdleRestartsWitness ==
  ClockNext("idle") /\ isPaused /\ ~isGameOver /\ warningTimer = NULL

\* The pending idle timers of the descent: the delay and the identity of each.
IdleTimers(q) ==
  LET idle == EntriesOf(q, "idle")
  IN [i \in DOMAIN idle |-> [rem |-> idle[i].rem, lid |-> idle[i].lid]]

\* The phases of the descent controller.
Warning == warningTimer # NULL
Descending == warningTimer = NULL /\ Pending("goDescent") # {}
Idle == ~Warning /\ ~Descending

\* C14: the descent controller cycles Idle, Warning, Descending, Idle: the
\* grid descends only in the third tick of a warning event, the one that
\* takes the countdown from 1 to 0, and when the check that follows a descent
\* does not end the session, exactly one idle timer is running afterwards,
\* its delay the interval of the current score less DESCENT_WARNING_TIME.
DescentCycle ==
  [][/\ descents' # descents =>
          /\ ClockNext("warn")
          /\ timers[NextDue(timers)].left = 0
          /\ warningCountdown = 1 /\ warningCountdown' = 0
     /\ (ClockNext("goDescent") /\ ~isGameOver /\ ~isGameOver') =>
          /\ Len(IdleTimers(timers')) = 1
          /\ IdleTimers(timers')[1].rem =
                getDescentIntervalForScore(score) - DESCENT_WARNING_TIME]_vars

\* C15: a score change that alters the descent interval while the controller
\* is Idle replaces the running idle timer by one with the new delay; a score
\* change during Warning or Descending cancels no timer and starts none.
IntervalChangeRetimes ==
  [][(score' # score /\ scene' = scene /\ ~isGameOver) =>
       IF Idle
       THEN descentInterval' # descentInterval =>
              /\ Len(IdleTimers(timers')) = 1
              /\ IdleTimers(timers')[1].rem = descentInterval' - DESCENT_WARNING_TIME
              /\ IdleTimers(timers')[1].lid \notin
                    {IdleTimers(timers)[i].lid : i \in DOMAIN IdleTimers(timers)}
                  \/ IdleTimers(timers')[1].rem # IdleTimers(timers)[1].rem
       ELSE IdleTimers(timers') = IdleTimers(timers)]_vars

\* The half of C15 that holds: the restart while Idle.
IdleRetimes ==
  [][(score' # score /\ scene' = scene /\ ~isGameOver /\ Idle
        /\ descentInterval' # descentInterval) =>
       /\ Len(IdleTimers(timers')) = 1
       /\ IdleTimers(timers')[1].rem = descentInterval' - DESCENT_WARNING_TIME]_vars

\* The points of one call of updateScore: a pop of 3, a pop of 4, a drop of
\* 52 floating bubbles.
Increments == {3 * POINTS_PER_POP, 4 * POINTS_PER_POP, 52 * POINTS_PER_FALL}

\* The entry of a threshold table that counts for the score sc: the one of
\* the highest score reached.
Reached(table, sc) == {i \in DOMAIN table : table[i].score <= sc}
Highest(table, sc) ==
  table[CHOOSE i \in Reached(table, sc) :
          \A j \in Reached(table, sc) : table[j].score <= table[i].score]

\* C16: the number of unlocked colours is between 4 and 8, is the colour count
\* of the highest entry of COLOR_THRESHOLDS whose score has been reached, now
\* and after every score update, and no score update lowers it.
ColorProgression ==
  /\ availableColorCount \in 4..8
  /\ availableColorCount = Highest(COLOR_THRESHOLDS, score).colors
  /\ \A points \in Increments :
       LET s1 == updateScore(St, points)
       IN /\ s1.availableColorCount \in 4..8
          /\ s1.availableColorCount >= availableColorCount
          /\ s1.availableColorCount = Highest(COLOR_THRESHOLDS, s1.score).colors

\* A session that has crossed the first threshold and unlocked the fifth colour.
ColorProgressionWitness ==
  scene = "game" /\ score >= 500 /\ availableColorCount = 5

\* C17: a score update produces one new-colour notification for each colour
\* threshold that it crosses and raises the number of unlocked colours by one
\* for each; an update that crosses none produces none.
ThresholdNotifications ==
  \A points \in Increments :
    LET s0 == [St EXCEPT !.score = @ + points]
        crossed == Reached(COLOR_THRESHOLDS, s0.score) \ Reached(COLOR_THRESHOLDS, score)
    IN /\ Len(showNewColorIndicator(s0)) = Cardinality(crossed)
       /\ checkColorProgression(s0).availableColorCount =
            availableColorCount + Cardinality(crossed)

PoppedInStep ==
  Len(PopEntries(timers'))
    - Len(PopEntries(IF phase = "frame" /\ DueClock(timers) \cup DueTween(timers) # {}
                     THEN Taken.timers ELSE timers))
DroppedInStep ==
  {b \in gridBubbles :
     b.id \in {f.id : f \in fallingBubbles'} \ {f.id : f \in fallingBubbles}}

\* C19: within a session every step changes the score by POINTS_PER_POP for
\* each bubble that it marks for popping plus POINTS_PER_FALL for each bubble
\* that it drops as floating, and by nothing else; the score is a natural
\* number that never decreases.
ScoreAccounting ==
  [][(scene = "game" /\ scene' = "game") =>
       /\ score' = score + PoppedInStep * POINTS_PER_POP
                         + Cardinality(DroppedInStep) * POINTS_PER_FALL
       /\ PoppedInStep >= 0
       /\ score \in Nat /\ score' >= score]_vars

\* A session that has been credited a pop and a drop of floating bubbles.
ScoreAccountingWitness ==
  /\ scene = "game"
  /\ fallingBubbles # {}
  /\ score >= 3 * POINTS_PER_POP + POINTS_PER_FALL

\* The launch angles of the tables that lie strictly between 0 and 180.
LaunchAngles == {Grazing, 30, 45, 60, 90, 120, 135, 150}

\* The loop of the preview ends within its 200 iterations.
PreviewEnds ==
  \A angle \in LaunchAngles :
    TrajectorySteps(gridBubbles, 0, shooterX, shooterY, CosMilli(angle),
                    -SinMilli(angle), 0) <= 200

\* C20: for every launch angle strictly between 0 and 180 degrees the loop of
\* the preview runs at most 200 iterations, and the flight of a shot ends
\* after finitely many frames of a session that is not paused: every such
\* frame either ends the flight (the bubble sticks or is discarded) or takes
\* the bubble closer to the ceiling, where it sticks.
FlightEnds ==
  [][/\ PreviewEnds
     /\ (/\ shootingBubble # NULL /\ shootingBubble.active /\ ~isPaused
         /\ phase = "frame" /\ phase' = "events") =>
          \/ shootingBubble' = NULL
          \/ /\ shootingBubble'.y < shootingBubble.y
             /\ shootingBubble'.y - BUBBLE_RADIUS > gameArea.top]_vars

\* The part of C20 that holds for the angles whose vertical step is not lost.
FlightEndsUnlessGrazing ==
  [][(/\ shootingBubble # NULL /\ shootingBubble.active /\ ~isPaused
      /\ shootingBubble.velocityY # 0
      /\ phase = "frame" /\ phase' = "events") =>
        \/ shootingBubble' = NULL
        \/ shootingBubble'.y < shootingBubble.y]_vars

BouncePoints(points) == {i \in DOMAIN points : points[i].bounce}

\* C22: the preview reflects at the side walls at most 3 times: the polyline
\* that drawTrajectory has built holds no more than 3 bounce points.
PreviewBounceCap == Cardinality(BouncePoints(trajectoryGraphics)) <= 3

\* The bubble that checkGridCollision returns: the first of gridBubbles, which
\* is in the order of insertion, that lies within the collision distance.
ContactBubble(grid, x, y) ==
  LET near == {b \in grid :
                 LET pos == getGridPosition(b.row, b.col)
                 IN Dist2(x, y, pos.x, pos.y)
                      < ((BUBBLE_DIAMETER * 9) \div 10) * ((BUBBLE_DIAMETER * 9) \div 10)}
  IN CHOOSE b \in near : \A c \in near : b.id <= c.id

RECURSIVE PreviewStop(_, _, _, _, _, _, _)
\* Where the loop of drawTrajectory ends: at the ceiling, on contact with a
\* settled bubble, or cut off by its step and bounce limits.
PreviewStop(grid, step, x, y, dx, dy, bounces) ==
  IF ~(step < 200 /\ bounces <= 3) THEN [kind |-> "cut", hit |-> -1, bounces |-> bounces]
  ELSE LET x1 == x + dx
           y1 == y + dy
           hitLeft == x1 - BUBBLE_RADIUS <= gameArea.left
           hitRight == ~hitLeft /\ x1 + BUBBLE_RADIUS >= gameArea.right
           x2 == IF hitLeft THEN gameArea.left + BUBBLE_RADIUS
                 ELSE IF hitRight THEN gameArea.right - BUBBLE_RADIUS ELSE x1
           dx2 == IF hitLeft THEN Abs(dx) ELSE IF hitRight THEN -Abs(dx) ELSE dx
           b2 == IF hitLeft \/ hitRight THEN bounces + 1 ELSE bounces
       IN IF y1 - BUBBLE_RADIUS <= gameArea.top
          THEN [kind |-> "ceiling", hit |-> -1, bounces |-> b2]
          ELSE IF checkGridCollision(grid, x2, y1)
          THEN [kind |-> "contact", hit |-> ContactBubble(grid, x2, y1).id, bounces |-> b2]
          ELSE PreviewStop(grid, step + 1, x2, y1, dx2, dy, b2)

RECURSIVE FlightStop(_, _, _, _, _)
\* Where the frames of updateShootingBubble end the flight of a shot over a
\* grid that stays as it is.
FlightStop(grid, x, y, velocityX, velocityY) ==
  LET x1 == x + Quot(velocityX * FrameMs, 1000)
      y1 == y + Quot(velocityY * FrameMs, 1000)
      hitLeft == x1 - BUBBLE_RADIUS <= gameArea.left
      hitRight == ~hitLeft /\ x1 + BUBBLE_RADIUS >= gameArea.right
      x2 == IF hitLeft THEN gameArea.left + BUBBLE_RADIUS
            ELSE IF hitRight THEN gameArea.right - BUBBLE_RADIUS ELSE x1
      vx == IF hitLeft THEN Abs(velocityX)
            ELSE IF hitRight THEN -Abs(velocityX) ELSE velocityX
  IN IF y1 - BUBBLE_RADIUS <= gameArea.top THEN [kind |-> "ceiling", hit |-> -1]
     ELSE IF checkGridCollision(grid, x2, y1)
     THEN [kind |-> "contact", hit |-> ContactBubble(grid, x2, y1).id]
     ELSE FlightStop(grid, x2, y1, vx, velocityY)

\* The launch angles for which preview and flight are compared.
CompareAngles == {20, 30, 45, 60, 90, 120, 135, 150}

\* C23: for the same launch angle and the same grid, a preview that ends at
\* the ceiling or on contact after at most 3 bounces ends as the real shot
\* ends: at the ceiling, or on contact with the same bubble.
PreviewMatchesFlight ==
  (scene = "game" /\ phase = "events") =>
    \A angle \in CompareAngles :
      LET p == PreviewStop(gridBubbles, 0, shooterX, shooterY, CosMilli(angle),
                           -SinMilli(angle), 0)
          f == FlightStop(gridBubbles, shooterX, shooterY,
                          Quot(CosMilli(angle) * BUBBLE_SPEED, 1000),
                          -Quot(SinMilli(angle) * BUBBLE_SPEED, 1000))
      IN (p.kind # "cut" /\ p.bounces <= 3) => (p.kind = f.kind /\ p.hit = f.hit)

\* C24: the floating-bubble search is idempotent: run again on the grid that
\* the float check leaves after dropping every floating bubble, it finds none.
FloatingIdempotent ==
  ClockNext("float") => findFloatingBubbles(floatCheck(Taken).gridBubbles) = {}

FloatingIdempotentWitness ==
  /\ ClockNext("float")
  /\ findFloatingBubbles(gridBubbles) # {}
  /\ floatCheck(Taken).gridBubbles # {}

\* C25: the session becomes terminal at most once: a deferred game-over check
\* (150 ms after a settle, 250 ms after a descent) that is dispatched when the
\* session is already terminal changes nothing, so triggerGameOver does not
\* run (and arm its timeout, and send game_over) a second time.
GameOverOnce ==
  ((ClockNext("goSettle") \/ ClockNext("goDescent")) /\ isGameOver) =>
    Callback(Taken, timers[NextDue(timers)], [c \in 0..(bubblesPerRow - 1) |-> 0]) = Taken

AllClosed == \A s \in Sockets : sockets[s].state = "closed"

\* C27: every room all of whose client sockets have closed is eventually
\* removed from the rooms map (its expiry timer is armed and fires).
RoomsExpire == AllClosed ~> (\A c \in Codes : rooms[c] = NoRoom)

\* C28: a message of a registered client is passed on only to the socket of
\* the other role in the sender's room, with type and data as received and
\* from set to the sender's role; never to the sender itself or to a socket
\* of another room.
RelayToPeerOnly ==
  \A d \in sent :
    d.by # NoSocket =>
      /\ d.to # d.by
      /\ d.type = incoming.type
      /\ d.data = incoming.data
      /\ d.from = sockets[d.by].clientType
      /\ sockets[d.to].clientRoom = sockets[d.by].clientRoom
      /\ sockets[d.to].clientType = OtherRole(d.from)

Sorted(board) == \A i \in 1..(Len(board) - 1) : board[i].score >= board[i + 1].score

\* C29: after any sequence of addToLeaderboard calls the stored leaderboard
\* has at most MAX_LEADERBOARD_ENTRIES entries, sorted by score, non-increasing.
LeaderboardSorted ==
  /\ Len(leaderboard) <= MAX_LEADERBOARD_ENTRIES
  /\ Sorted(leaderboard)

\* A full leaderboard that holds an entry saved after the tenth, between
\* entries of a higher and of a lower score.
LeaderboardSortedWitness ==
  /\ Len(leaderboard) = MAX_LEADERBOARD_ENTRIES
  /\ \E i \in 2..(MAX_LEADERBOARD_ENTRIES - 1) :
       /\ leaderboard[i].date > MAX_LEADERBOARD_ENTRIES
       /\ leaderboard[i - 1].score > leaderboard[i].score
       /\ leaderboard[i].score > leaderboard[i + 1].score

\* C30: a shot is inserted only at a cell that, at the moment of insertion,
\* is valid, empty, and in row 0 or adjacent to an occupied cell, whatever
\* descent or pop removal ran between the contact and the end of the snap.
InsertedCellAttached ==
  (SnapNext /\ Settle.added.bubble # NULL) =>
    LET t == timers[NextDue(timers)]
    IN /\ isValidGridCell(t.row, t.col)
       /\ ~CellOccupied(gridBubbles, t.row, t.col)
       /\ hasAdjacentBubble(gridBubbles, t.row, t.col)

\* The frame's update() moves a shot that is in flight.
FlightNext ==
  /\ phase = "frame"
  /\ DueClock(timers) \cup DueTween(timers) = {}
  /\ ~isPaused
  /\ shootingBubble # NULL
  /\ shootingBubble.active

\* Where updateShootingBubble has moved the shot when it calls stickBubble.
StopPoint ==
  LET b == shootingBubble
      x1 == b.x + Quot(b.velocityX * FrameMs, 1000)
      y1 == b.y + Quot(b.velocityY * FrameMs, 1000)
      x2 == IF x1 - BUBBLE_RADIUS <= gameArea.left THEN gameArea.left + BUBBLE_RADIUS
            ELSE IF x1 + BUBBLE_RADIUS >= gameArea.right THEN gameArea.right - BUBBLE_RADIUS
            ELSE x1
  IN [x |-> x2,
      y |-> IF y1 - BUBBLE_RADIUS <= gameArea.top THEN gameArea.top + BUBBLE_RADIUS ELSE y1]

\* The shot stops in this frame's update().
StopNext == FlightNext /\ update(St).shootingBubble = NULL

\* The valid empty cells of the 3x3 block around the cell nearest to the
\* stop point that are in row 0 or adjacent to an occupied cell.
AttachableCells ==
  LET cell == getGridCell(StopPoint.x, StopPoint.y)
  IN {c \in {[row |-> cell.row + dr, col |-> cell.col + dc] : dr \in {-1, 0, 1}, dc \in {-1, 0, 1}} :
        /\ isValidGridCell(c.row, c.col)
        /\ ~CellOccupied(gridBubbles, c.row, c.col)
        /\ hasAdjacentBubble(gridBubbles, c.row, c.col)}

\* stickBubble has started the snap of the stopped shot.
SnapArmed == Len(EntriesOf(update(St).timers, "snap")) > Len(EntriesOf(timers, "snap"))

DiscardNext == StopNext /\ ~SnapArmed

\* C32: when a stopped shot is discarded, the grid and the score stay as they
\* are, no callback is armed, the session does not become terminal, and the
\* next shoot command is accepted.
DiscardLeavesSession ==
  DiscardNext =>
    LET s1 == update(St)
    IN /\ s1.gridBubbles = gridBubbles
       /\ s1.score = score
       /\ s1.timers = timers
       /\ s1.isGameOver = isGameOver
       /\ s1.isPaused = isPaused
       /\ \A angle \in Angles, rnd \in DrawColors :
            LET s2 == handleShoot(s1, angle, rnd)
            IN s2.shootingBubble # NULL /\ s2.shootingBubble.active

DiscardLeavesSessionWitness == DiscardNext /\ ~isGameOver /\ gridBubbles # {}

\* The members of a sequence of bubbles.
Members(seq) == {seq[i] : i \in DOMAIN seq}

\* C33: on the grid of every settle, for the shot and for every bubble next
\* to it, findConnectedBubbles returns exactly the bubbles of its colour that
\* a chain of getNeighbors steps through bubbles of that colour links to it,
\* the start bubble first, none listed twice.
ConnectedIsComponent ==
  (SnapNext /\ Settle.added.bubble # NULL) =>
    \A b \in {o \in Settle.added.s.gridBubbles :
                o = Settle.added.bubble \/ Adjacent(Settle.added.bubble, o)} :
      LET connected == findConnectedBubbles(Settle.added.s.gridBubbles, b)
      IN /\ connected[1] = b
         /\ Members(connected) = Component(Settle.added.s.gridBubbles, b)
         /\ Len(connected) = Cardinality(Members(connected))

\* A settle has just put a shot next to bubbles of its colour and of another.
ConnectedIsComponentWitness ==
  /\ SnapNext
  /\ Settle.added.bubble # NULL
  /\ LET g == Settle.added.s.gridBubbles
         b == Settle.added.bubble
     IN /\ Cardinality(Component(g, b)) >= 3
        /\ \E o \in g : /\ o.color # b.color
                        /\ \E i \in DOMAIN getNeighbors(b.row, b.col) :
                             getNeighbors(b.row, b.col)[i] = [row |-> o.row, col |-> o.col]

\* C34: one game over adds at most one entry to the leaderboard, and the
\* entry carries the initials that were submitted, never empty ones.
OneEntryPerGameOver ==
  /\ Len(leaderboard) <= 1
  /\ \A i \in DOMAIN leaderboard : leaderboard[i].initials # ""

\* The state of a session that has just begun: nothing earned, nothing in
\* flight, and one bubble in every cell of rows 0..GRID_ROWS-1, a row of odd
\* index holding one bubble less.
SessionReset ==
  /\ score = 0
  /\ availableColorCount = 4
  /\ descentInterval = 20000
  /\ ~isPaused
  /\ ~isGameOver
  /\ shootingBubble = NULL
  /\ fallingBubbles = {}
  /\ \A row \in 0..(GRID_ROWS - 1) :
       \A col \in 0..(bubblesPerRow - 1 - (row % 2)) :
         Cardinality({b \in gridBubbles : b.row = row /\ b.col = col}) = 1
  /\ \A b \in gridBubbles :
       b.row \in 0..(GRID_ROWS - 1) /\ b.col \in 0..(bubblesPerRow - 1 - (b.row % 2))

Registrations(v) ==
  [id \in DOMAIN v.roomObjs |-> << v.roomObjs[id].desktop, v.roomObjs[id].phone >>]

\* Handler result w refuses the request of sock: an error reply to sock, the
\* rooms map and the registrations as in v.
Refused(v, sock, w) ==
  /\ \E d \in w.sent : d.to = sock /\ d.type = "error" /\ d.by = NoSocket
  /\ w.rooms = v.rooms
  /\ Registrations(w) = Registrations(v)

\* sock holds the desktop or the phone slot of some room.
Registered(sock) ==
  \E id \in DOMAIN roomObjs : roomObjs[id].desktop = sock \/ roomObjs[id].phone = sock

\* Requests that name no room of the map, and data that is not JSON.
BadRequestsRefused(sock) ==
  /\ Refused(Srv, sock, onInvalidJson(Srv, sock))
  /\ \A code \in Codes :
       rooms[code] = NoRoom =>
         /\ Refused(Srv, sock, onJoinRoom(Srv, sock, code))
         /\ \A role \in Roles : Refused(Srv, sock, onReconnect(Srv, sock, code, role))

GameMessagesRefused(sock) ==
  \A type \in RelayTypes, data \in RelayData :
    Refused(Srv, sock, onOtherMessage(Srv, sock, [by |-> sock, type |-> type, data |-> data]))

\* C36: a request that fails (data that is not JSON, join_room or reconnect
\* for a code that names no room, a game message of a socket registered in no
\* room) is answered with an error and changes neither the rooms map nor the
\* desktop and phone registration of any room.
FailedRequestRefused ==
  \A sock \in Sockets :
    sockets[sock].state = "open" =>
      /\ BadRequestsRefused(sock)
      /\ ~Registered(sock) => GameMessagesRefused(sock)

\* The same for the sockets that never sent create_room, join_room or reconnect.
FailedRequestRefusedUnlessStale ==
  \A sock \in Sockets :
    sockets[sock].state = "open" =>
      /\ BadRequestsRefused(sock)
      /\ (sockets[sock].clientRoom = NoRoom \/ sockets[sock].clientType = "") =>
           GameMessagesRefused(sock)

\* The server after the close of socket sock.
AfterClose(sock) == onClose([Srv EXCEPT !.sockets[sock].state = "closed"], sock)

\* C39: a slot of a room is cleared only by the close or error of the socket
\* registered in it: when another socket closes, a slot that holds an open
\* socket still holds it, no peer_disconnected for its role is sent and no
\* expiry of its room is scheduled.
SlotClearedByOwnSocketOnly ==
  \A sock \in Sockets :
    sockets[sock].state \in {"open", "failed"} =>
      \A id \in DOMAIN roomObjs, role \in Roles :
        LET holder == Slot(roomObjs[id], role)
        IN (holder # NoSocket /\ holder # sock /\ sockets[holder].state = "open") =>
             /\ Slot(AfterClose(sock).roomObjs[id], role) = holder
             /\ \A d \in AfterClose(sock).sent :
                  ~(d.type = "peer_disconnected" /\ d.data = role
                    /\ d.to = Slot(roomObjs[id], OtherRole(role)))
             /\ AfterClose(sock).roomObjs[id].pending => roomObjs[id].pending

\* C40: descendGrid preserves adjacency: two settled bubbles that are
\* neighbours under getNeighbors before a descent are neighbours after it.
DescentKeepsNeighbours ==
  [][descents' = descents + 1 =>
       \A a \in gridBubbles, b \in gridBubbles :
         Adjacent(a, b) =>
           \E a2 \in gridBubbles', b2 \in gridBubbles' :
             a2.id = a.id /\ b2.id = b.id /\ Adjacent(a2, b2)]_vars

\* C37: at most one descent cycle is pending: the idle timers, the warning
\* events and the checks that follow a descent number at most one together.
OneDescentCyclePending ==
  Cardinality(Pending("idle") \cup Pending("warn") \cup Pending("goDescent")) <= 1

\* The bubbles that the float check dispatched next drops and credits.
FloatCredited ==
  {b.id : b \in findFloatingBubbles(Taken.gridBubbles)}

\* The bubbles that the settle completed next pops and credits.
SettleCredited ==
  LET connected == findConnectedBubbles(Settle.added.s.gridBubbles, Settle.added.bubble)
  IN IF Len(connected) >= 3 THEN {b.id : b \in Members(connected)} ELSE {}

\* C38: a settled bubble is credited to the score at most once: a bubble
\* that a pop has counted (its staggered removal still pending) is counted
\* neither by the float check nor by the pop of a later shot.
CreditedOnce ==
  /\ ClockNext("float") => FloatCredited \cap PopIds(Taken.timers) = {}
  /\ (SnapNext /\ Settle.added.bubble # NULL) =>
       SettleCredited \cap PopIds(Settle.s0.timers) = {}
====
